---- MODULE Spec2Model ----
(***************************************************************************)
(* A model of the JK financial dashboard back end:                         *)
(*   - src/backend/app.py: the consolidator (transform_consolidated_data)  *)
(*     and the process-wide cache (load_all_financial_data, clear_cache,   *)
(*     get_raw_consolidated_data);                                         *)
(*   - src/backend/scripts/extract_financial_data.py: the table extraction *)
(*     chain (_extract_tables_from_page), the per-metric resolvers driven  *)
(*     by extract_all_metrics and the batch loop                           *)
(*     (extract_data_from_multiple_reports).                               *)
(*                                                                         *)
(* Units.  Python floats are modelled by scaled integers: percentages and  *)
(* per-share values in hundredths (36.0 % is 3600, an EPS of 10.5 is       *)
(* 1050), share counts of the persisted form in millions of shares.  The   *)
(* "formatted" strings of the persisted form are carried through unchanged *)
(* by the code and are left out of the records.                            *)
(***************************************************************************)
EXTENDS Integers, Sequences, FiniteSets, TLC

VARIABLES
    \* ---- consolidator (app.py, transform_consolidated_data)
    consolidated_data,  \* financial_data of the persisted form, in dict order
    transformed,        \* the last result of transform_consolidated_data
    \* ---- cache (app.py)
    json_file,          \* the consolidated JSON file on disk
    csv_dir,            \* the extracted_data directory the CSV loader lists
    data_cache,         \* app.data_cache
    last_call,          \* what the last request did and returned
    readers,            \* the requests that are inside load_all_financial_data
    \* ---- table extraction chain (extract_financial_data.py)
    chain,              \* one run of _extract_tables_from_page
    \* ---- extraction (extract_financial_data.py)
    extractor,          \* one JKHFinancialDataExtractor and its extract_all_metrics
    batch,              \* one run of extract_data_from_multiple_reports
    normalizer          \* one call of _clean_numeric_value

vars == <<consolidated_data, transformed, json_file, csv_dir, data_cache,
          last_call, readers, chain, extractor, batch, normalizer>>

consolidatorVars == <<consolidated_data, transformed>>
cacheVars        == <<json_file, csv_dir, data_cache, last_call, readers>>
extractVars      == <<chain, extractor, batch>>

(***************************************************************************)
(* Optional values: Python's None is the empty tuple, a value v is <<v>>.  *)
(* A float that is not a number (pandas reads an empty or "N/A" cell as    *)
(* NaN) is neither: it is the pair NaN.                                    *)
(***************************************************************************)
None    == <<>>
Some(v) == <<v>>
NaN     == <<0, 0>>

Range(s) == {s[i] : i \in 1..Len(s)}

\* A sequence given by a rule for its elements, written down in full.
Listed(s) == s \o <<>>

(***************************************************************************)
(* Bounds of the model.                                                    *)
(***************************************************************************)
MaxPeriods == 3     \* fiscal periods in one persisted dataset

(***************************************************************************)
(* Strings that the code takes apart are sequences of one-character        *)
(* strings, so that split('-') and int() are computed and not assumed.     *)
(***************************************************************************)
Digits == <<"0", "1", "2", "3", "4", "5", "6", "7", "8", "9">>

IsDigit(c) == \E d \in 1..10 : Digits[d] = c

DigitVal(c) == (CHOOSE d \in 1..10 : Digits[d] = c) - 1

\* str.split('-'): the pieces between the dashes, at least one piece.
RECURSIVE SplitDash(_)
SplitDash(s) ==
    IF \A i \in 1..Len(s) : s[i] # "-"
    THEN <<s>>
    ELSE LET i == CHOOSE j \in 1..Len(s) :
                      s[j] = "-" /\ \A k \in 1..(j - 1) : s[k] # "-"
         IN  <<SubSeq(s, 1, i - 1)>> \o SplitDash(SubSeq(s, i + 1, Len(s)))

RECURSIVE DigitsValue(_)
DigitsValue(s) ==
    IF s = <<>> THEN 0
    ELSE 10 * DigitsValue(SubSeq(s, 1, Len(s) - 1)) + DigitVal(s[Len(s)])

\* int(text) on a piece of a period key: the number, or None where Python
\* raises ValueError (the empty string, a non-digit).
PyInt(s) ==
    IF s # <<>> /\ \A i \in 1..Len(s) : IsDigit(s[i])
    THEN Some(DigitsValue(s))
    ELSE None

(***************************************************************************)
(* The persisted consolidated form (export_data_to_json): financial_data   *)
(* maps a fiscal-period key to the metrics of that period.  A metric value *)
(* is None where the extraction record had no such key (JSON null);        *)
(* right_issues and top_shareholders are None where the key is absent.     *)
(***************************************************************************)
Key_2019_2020 == <<"2", "0", "1", "9", "-", "2", "0", "2", "0">>
Key_2020_2021 == <<"2", "0", "2", "0", "-", "2", "0", "2", "1">>
Key_2021_2021 == <<"2", "0", "2", "1", "-", "2", "0", "2", "1">>
Key_19_20     == <<"1", "9", "-", "2", "0">>
Key_2019      == <<"2", "0", "1", "9">>     \* the extractor's single-year token

PeriodKeys == {Key_2019_2020, Key_2020_2021, Key_2021_2021, Key_19_20, Key_2019}

KeyRank(k) ==
    CASE k = Key_2019_2020 -> 0
      [] k = Key_2020_2021 -> 1
      [] k = Key_2021_2021 -> 2
      [] k = Key_19_20     -> 3
      [] OTHER             -> 4

\* The shareholders of a period, in the order of the persisted dict.
ShareholdersOf(k) ==
    << [name |-> "Employee Provident Fund",
        percentage |-> Some(1250 + 30 * KeyRank(k)),
        shares |-> Some(125 + 3 * KeyRank(k))],
       [name |-> "John Keells Holdings PLC",
        percentage |-> Some(3550 + 50 * KeyRank(k)),
        shares |-> Some(355 + 5 * KeyRank(k))] >>

RightIssueVariants ==
    { None,
      Some([ratio |-> "N/A", issue_price |-> None]),
      Some([ratio |-> "1:5", issue_price |-> Some(8000)]),
      Some([ratio |-> "1:4", issue_price |-> None]) }

\* The year_data a period key can come with: the figures differ from period
\* to period, so that the period an entry was built from can be told.
YearData(k, ri, eps_ok, sh_ok) ==
    [ total_revenue       |-> Some(100000 + 20000 * KeyRank(k)),
      cost_of_sales       |-> Some(70000 + 10000 * KeyRank(k)),
      operating_expenses  |-> Some(15000 + 3000 * KeyRank(k)),
      gross_profit        |-> Some(30000 + 10000 * KeyRank(k)),
      gross_profit_margin |-> Some(3000 + 333 * KeyRank(k)),
      earnings_per_share  |-> IF eps_ok THEN Some(1050 + 200 * KeyRank(k)) ELSE None,
      net_asset_per_share |-> Some(7525 + 475 * KeyRank(k)),
      right_issues        |-> ri,
      top_shareholders    |-> IF sh_ok THEN Some(ShareholdersOf(k)) ELSE None ]

PeriodEntries ==
    { [period |-> k, data |-> YearData(k, ri, TRUE, TRUE)] :
        k \in PeriodKeys, ri \in RightIssueVariants }
    \cup
    { [period |-> k, data |-> YearData(k, None, FALSE, TRUE)] : k \in PeriodKeys }
    \cup
    { [period |-> k,
       data |-> YearData(k, Some([ratio |-> "N/A", issue_price |-> None]), TRUE, FALSE)] :
        k \in PeriodKeys }

(***************************************************************************)
(* transform_consolidated_data (app.py 49-147).                            *)
(***************************************************************************)
Raised == [status |-> "raised"]

EmptyTransformed ==
    [status |-> "ok", yearlyData |-> <<>>, rightIssues |-> <<>>,
     topShareholders |-> <<>>]

\* get_events_for_year: the titles of the events of a year.
get_events_for_year(year) ==
    CASE year = 2019 -> <<"Easter Sunday Attacks">>
      [] year = 2020 -> <<"COVID-19 Pandemic", "Government Relief">>
      [] year = 2021 -> <<"Vaccination Programs">>
      [] year = 2022 -> <<"Economic Crisis">>
      [] year = 2023 -> <<"Tourism Resurgence">>
      [] year = 2024 -> <<"Economic Recovery", "Digital Transformation">>
      [] OTHER       -> <<>>

default_shares == 1385     \* 1,385,000,000 shares, in millions

\* estimate_share_count: from the first shareholder that has both a
\* percentage and a share count, else the default.
estimate_share_count(year_data) ==
    IF year_data.top_shareholders = None THEN default_shares
    ELSE LET sh == year_data.top_shareholders[1]
             ok(i) == /\ sh[i].percentage # None /\ sh[i].percentage[1] # 0
                      /\ sh[i].shares # None /\ sh[i].shares[1] # 0
         IN  IF \E i \in 1..Len(sh) : ok(i)
             THEN LET i == CHOOSE j \in 1..Len(sh) :
                               ok(j) /\ \A k \in 1..(j - 1) : ~ok(k)
                  IN  (sh[i].shares[1] * 10000) \div sh[i].percentage[1]
             ELSE default_shares

\* sorted(yearlyData, key=year): a stable insertion sort, ascending.
RECURSIVE InsertByYear(_, _)
InsertByYear(x, s) ==
    IF s = <<>> THEN <<x>>
    ELSE IF x.year < Head(s).year THEN <<x>> \o s
    ELSE <<Head(s)>> \o InsertByYear(x, Tail(s))

RECURSIVE SortedByYear(_)
SortedByYear(s) ==
    IF s = <<>> THEN <<>>
    ELSE InsertByYear(s[Len(s)], SortedByYear(SubSeq(s, 1, Len(s) - 1)))

\* sorted(shareholders, key=percentage, reverse=True): stable, descending.
RECURSIVE InsertByPercentage(_, _)
InsertByPercentage(x, s) ==
    IF s = <<>> THEN <<x>>
    ELSE IF x.percentage > Head(s).percentage THEN <<x>> \o s
    ELSE <<Head(s)>> \o InsertByPercentage(x, Tail(s))

RECURSIVE SortedByPercentage(_)
SortedByPercentage(s) ==
    IF s = <<>> THEN <<>>
    ELSE InsertByPercentage(s[Len(s)],
                            SortedByPercentage(SubSeq(s, 1, Len(s) - 1)))

\* Lines 89-104: the shareholder list of one period, sorted by percentage.
shareholders_list(year_data) ==
    LET src == year_data.top_shareholders[1]
        one(d) == [name |-> d.name,
                   percentage |-> IF d.percentage = None THEN 0 ELSE d.percentage[1],
                   shares |-> d.shares]
    IN  SortedByPercentage([i \in 1..Len(src) |-> one(src[i])])

\* Lines 107-130: the financials of one period.
financials_of(year_data) ==
    LET shares == estimate_share_count(year_data)
    IN  [ revenue           |-> year_data.total_revenue,
          costOfSales       |-> year_data.cost_of_sales,
          operatingExpenses |-> year_data.operating_expenses,
          grossProfit       |-> year_data.gross_profit,
          grossProfitMargin |-> year_data.gross_profit_margin,
          eps               |-> year_data.earnings_per_share,
          netAssetPerShare  |-> year_data.net_asset_per_share,
          outstandingShares |-> shares,
          netProfit         |-> Some(year_data.earnings_per_share[1] * shares) ]

\* Lines 75-86: the rights issue of a period under one display year; a pair
\* (year, ratio) that is already listed is not added again.
add_right_issue(rightIssues, year_data, display_year) ==
    IF year_data.right_issues = None THEN rightIssues
    ELSE LET ri == year_data.right_issues[1]
             item == [year |-> display_year, ratio |-> ri.ratio,
                      issuePrice |-> ri.issue_price,
                      description |-> "Rights issue"]
         IN  IF ri.ratio = "N/A" THEN rightIssues
             ELSE IF \E i \in 1..Len(rightIssues) :
                        /\ rightIssues[i].year = display_year
                        /\ rightIssues[i].ratio = item.ratio
                  THEN rightIssues
                  ELSE Append(rightIssues, item)

\* set_top_shareholders that keeps the list a year already has.
set_top_shareholders_first_wins(topShareholders, year_data, display_year) ==
    IF year_data.top_shareholders = None \/ display_year \in DOMAIN topShareholders
    THEN topShareholders
    ELSE [y \in (DOMAIN topShareholders) \cup {display_year} |->
            IF y = display_year THEN shareholders_list(year_data)
            ELSE topShareholders[y]]

\* Lines 88-104: topShareholders[display_year] = the list of this period.
set_top_shareholders(topShareholders, year_data, display_year) ==
    IF year_data.top_shareholders = None THEN topShareholders
    ELSE [y \in (DOMAIN topShareholders) \cup {display_year} |->
            IF y = display_year THEN shareholders_list(year_data)
            ELSE topShareholders[y]]

\* add_yearly_data without the check of line 141.
add_yearly_data_unchecked(yearlyData, yearly_data) ==
    Append(yearlyData, yearly_data)

\* add_yearly_data where a later entry takes the place of the one present.
add_yearly_data_last_wins(yearlyData, yearly_data) ==
    IF \E i \in 1..Len(yearlyData) : yearlyData[i].year = yearly_data.year
    THEN [i \in 1..Len(yearlyData) |->
            IF yearlyData[i].year = yearly_data.year THEN yearly_data
            ELSE yearlyData[i]]
    ELSE Append(yearlyData, yearly_data)

\* Lines 132-142: the entry of a display year is appended unless an entry
\* of that year is already in yearlyData.
add_yearly_data(yearlyData, yearly_data) ==
    IF \E i \in 1..Len(yearlyData) : yearlyData[i].year = yearly_data.year
    THEN yearlyData
    ELSE Append(yearlyData, yearly_data)

\* Lines 73-142: one pass of the inner loop.  financials['eps'] *
\* financials['outstandingShares'] raises TypeError on a null EPS.
process_display_year(acc, year_data, display_year) ==
    IF acc = Raised THEN Raised
    ELSE IF year_data.earnings_per_share = None THEN Raised
    ELSE [ status          |-> "ok",
           rightIssues     |-> add_right_issue(acc.rightIssues, year_data, display_year),
           topShareholders |-> set_top_shareholders(acc.topShareholders, year_data,
                                                    display_year),
           yearlyData      |-> add_yearly_data(acc.yearlyData,
                                 [year       |-> display_year,
                                  financials |-> financials_of(year_data),
                                  events     |-> get_events_for_year(display_year)]) ]

\* Lines 66-70: the period key is split at '-' and both pieces are read as
\* integers; a key with one piece raises IndexError, a piece that is no
\* number raises ValueError.
fiscal_years(year_str) ==
    LET pieces == SplitDash(year_str)
    IN  IF Len(pieces) < 2 \/ PyInt(pieces[1]) = None \/ PyInt(pieces[2]) = None
        THEN None
        ELSE Some(<<PyInt(pieces[1])[1], PyInt(pieces[2])[1]>>)

\* process_period that surfaces a period under its start year only.
process_period_start_only(acc, entry) ==
    IF acc = Raised \/ fiscal_years(entry.period) = None THEN Raised
    ELSE process_display_year(acc, entry.data, fiscal_years(entry.period)[1][1])

\* Lines 66-142: one pass of the outer loop, the start year before the end year.
process_period(acc, entry) ==
    IF acc = Raised \/ fiscal_years(entry.period) = None THEN Raised
    ELSE LET fy == fiscal_years(entry.period)[1]
         IN  process_display_year(process_display_year(acc, entry.data, fy[1]),
                                  entry.data, fy[2])

RECURSIVE process_periods(_, _)
process_periods(acc, entries) ==
    IF entries = <<>> THEN acc
    ELSE process_periods(process_period(acc, Head(entries)), Tail(entries))

\* transform_consolidated_data without the sort of line 145.
transform_consolidated_data_unsorted(financial_data) ==
    process_periods(EmptyTransformed, financial_data)

\* Lines 49-147: the whole function; the result is sorted by year.
transform_consolidated_data(financial_data) ==
    LET t == process_periods(EmptyTransformed, financial_data)
    IN  IF t = Raised THEN Raised
        ELSE [t EXCEPT !.yearlyData = SortedByYear(t.yearlyData)]

(***************************************************************************)
(* The consolidator as a state machine: the persisted dataset grows by one *)
(* fiscal period at a time (a dict has one entry per key), and the         *)
(* transform is applied to what is there.                                  *)
(***************************************************************************)
NotRun == [status |-> "not run"]

KeysOf(entries) == {entries[i].period : i \in 1..Len(entries)}

WritePeriod(e) ==
    /\ Len(consolidated_data) < MaxPeriods
    /\ e.period \notin KeysOf(consolidated_data)
    /\ consolidated_data' = Append(consolidated_data, e)
    /\ transformed' = NotRun
    /\ UNCHANGED <<cacheVars, extractVars, normalizer>>

Transform ==
    /\ transformed = NotRun
    /\ transformed' = transform_consolidated_data(consolidated_data)
    /\ UNCHANGED <<consolidated_data, cacheVars, extractVars, normalizer>>

IdleCache ==
    /\ json_file = [exists |-> FALSE, readable |-> FALSE, content |-> <<>>]
    /\ csv_dir = [listable |-> TRUE, files |-> <<>>]
    /\ data_cache = [all_data |-> None, raw_json_data |-> None]
    /\ last_call = [op |-> "none"]
    /\ readers = <<>>

IdleExtract ==
    /\ chain = [pc |-> "idle"]
    /\ extractor = [pc |-> "idle"]
    /\ normalizer = [pc |-> "idle"]
    /\ batch = [pc |-> "idle"]

InitT ==
    /\ consolidated_data = <<>>
    /\ transformed = NotRun
    /\ IdleCache
    /\ IdleExtract

NextT ==
    \/ \E e \in PeriodEntries : WritePeriod(e)
    \/ Transform

SpecT == InitT /\ [][NextT]_vars

(***************************************************************************)
(* load_from_csv_files (app.py 227-385): the fallback loader.  The CSV     *)
(* files of a period hold what save_data_to_csv wrote for it: the metrics  *)
(* file always, the rights-issue and shareholder files when the record had *)
(* those keys.  pandas reads an empty cell and the text "N/A" as NaN.      *)
(***************************************************************************)
csv_shares_outstanding == 1322     \* 1,322,000,000 shares, in millions

\* float(metrics_dict.get(name, 0)) of a cell that save_data_to_csv wrote.
CsvFloat(cell) == IF cell = None THEN NaN ELSE cell

\* A text cell as read_csv gives it: "N/A" comes back as NaN.
CsvText(cell) == IF cell = "N/A" THEN "nan" ELSE cell

\* get_sample_right_issues_data (app.py 553-580).
get_sample_right_issues_data ==
    << [year |-> 2023, ratio |-> "4:1", issuePrice |-> Some(17500),
        description |-> "Rights issue for expansion"],
       [year |-> 2020, ratio |-> "3:1", issuePrice |-> Some(16000),
        description |-> "Rights issue for debt restructuring"],
       [year |-> 2018, ratio |-> "5:2", issuePrice |-> Some(14000),
        description |-> "Rights issue for acquisitions"],
       [year |-> 2015, ratio |-> "2:1", issuePrice |-> Some(12000),
        description |-> "Rights issue for capital investment"] >>

\* Lines 269-287.  The ratio read from the file is never the text 'N/A'
\* (it is NaN), so the test of line 278 passes for every file, and a NaN
\* ratio equals no ratio, itself included, in the duplicate check.
csv_add_right_issue(rightIssues, year_data, display_year) ==
    IF year_data.right_issues = None THEN rightIssues
    ELSE LET ri == year_data.right_issues[1]
             ratio == CsvText(ri.ratio)
             item == [year |-> display_year, ratio |-> ratio,
                      issuePrice |-> CsvFloat(ri.issue_price),
                      description |-> "Rights issue"]
         IN  IF \E i \in 1..Len(rightIssues) :
                    /\ rightIssues[i].year = display_year
                    /\ ratio # "nan"
                    /\ rightIssues[i].ratio = ratio
             THEN rightIssues
             ELSE Append(rightIssues, item)

\* Lines 289-313.
csv_set_top_shareholders(topShareholders, year_data, display_year) ==
    IF year_data.top_shareholders = None THEN topShareholders
    ELSE [y \in (DOMAIN topShareholders) \cup {display_year} |->
            IF y = display_year THEN shareholders_list(year_data)
            ELSE topShareholders[y]]

\* Lines 315-368.  The metrics file names the margin 'Gross Profit Margin
\* (%)', which line 264 turns into 'gross_profit_margin_(%)': the lookup of
\* 'gross_profit_margin' at line 320 finds nothing and gives 0.
csv_financials_of(year_data) ==
    LET eps == CsvFloat(year_data.earnings_per_share)
        netProfit == IF eps = NaN THEN NaN
                     ELSE Some(eps[1] * csv_shares_outstanding)
    IN  [ revenue           |-> CsvFloat(year_data.total_revenue),
          costOfSales       |-> CsvFloat(year_data.cost_of_sales),
          operatingExpenses |-> CsvFloat(year_data.operating_expenses),
          grossProfit       |-> CsvFloat(year_data.gross_profit),
          grossProfitMargin |-> Some(0),
          eps               |-> eps,
          netAssetPerShare  |-> CsvFloat(year_data.net_asset_per_share),
          outstandingShares |-> csv_shares_outstanding,
          netProfit         |-> netProfit,
          totalAssets       |-> 0,
          totalLiabilities  |-> 0 ]

\* Lines 268-372: one pass of the inner loop.
csv_process_display_year(acc, year_data, display_year) ==
    IF acc = Raised THEN Raised
    ELSE [ status          |-> "ok",
           rightIssues     |-> csv_add_right_issue(acc.rightIssues, year_data,
                                                   display_year),
           topShareholders |-> csv_set_top_shareholders(acc.topShareholders,
                                                        year_data, display_year),
           yearlyData      |-> add_yearly_data(acc.yearlyData,
                                 [year       |-> display_year,
                                  financials |-> csv_financials_of(year_data),
                                  events     |-> get_events_for_year(display_year)]) ]

\* Lines 250-372: one pass of the outer loop; the year string of a file
\* name is taken apart as the period key of the JSON form is.
csv_process_period(acc, entry) ==
    IF acc = Raised \/ fiscal_years(entry.period) = None THEN Raised
    ELSE LET fy == fiscal_years(entry.period)[1]
         IN  csv_process_display_year(
                 csv_process_display_year(acc, entry.data, fy[1]),
                 entry.data, fy[2])

RECURSIVE csv_process_periods(_, _)
csv_process_periods(acc, entries) ==
    IF entries = <<>> THEN acc
    ELSE csv_process_periods(csv_process_period(acc, Head(entries)), Tail(entries))

\* Lines 227-380: the dataset built from the directory, or Raised: listing
\* a directory that is not there raises, and so does a malformed file name.
csv_dataset(dir) ==
    IF ~dir.listable THEN Raised
    ELSE LET t == csv_process_periods(EmptyTransformed, dir.files)
         IN  IF t = Raised THEN Raised
             ELSE [t EXCEPT !.yearlyData = SortedByYear(t.yearlyData),
                            !.rightIssues = IF t.rightIssues = <<>>
                                            THEN get_sample_right_issues_data
                                            ELSE t.rightIssues]

\* Lines 227-385: the whole loader, as the cache it leaves and what the
\* call gives back.  Only 'all_data' is cached (line 383).
load_from_csv_files(cache, dir) ==
    LET all_data == csv_dataset(dir)
    IN  IF all_data = Raised
        THEN [cache |-> cache, outcome |-> "raised", result |-> Raised, csv_calls |-> 1]
        ELSE [cache   |-> [cache EXCEPT !.all_data = Some(all_data)],
              outcome |-> "returned",
              result  |-> all_data,
              csv_calls |-> 1]

(***************************************************************************)
(* The cache (app.py 19-47, 388-392, 622-631).  data_cache is a dict with  *)
(* the keys 'all_data' and 'raw_json_data'; a key that is not in the dict  *)
(* is None here.                                                           *)
(***************************************************************************)
EmptyCache == [all_data |-> None, raw_json_data |-> None]

\* load_from_source without the except clause of lines 44-47.
load_from_source_uncaught(cache, file, dir) ==
    IF ~file.exists THEN load_from_csv_files(cache, dir)
    ELSE IF ~file.readable \/ transform_consolidated_data(file.content) = Raised
    THEN [cache |-> cache, outcome |-> "raised", result |-> Raised, csv_calls |-> 0]
    ELSE [cache   |-> [all_data |-> Some(transform_consolidated_data(file.content)),
                       raw_json_data |-> Some(file.content)],
          outcome |-> "returned",
          result  |-> transform_consolidated_data(file.content),
          csv_calls |-> 0]

\* Lines 26-47: the load on a cache without 'all_data'.  A missing file,
\* a file that cannot be read or parsed, and a transform that raises all
\* end in load_from_csv_files; csv_calls counts the calls of it.
load_from_source(cache, file, dir) ==
    IF ~file.exists THEN load_from_csv_files(cache, dir)
    ELSE IF ~file.readable THEN load_from_csv_files(cache, dir)
    ELSE LET transformed_data == transform_consolidated_data(file.content)
         IN  IF transformed_data = Raised THEN load_from_csv_files(cache, dir)
             ELSE [cache   |-> [all_data      |-> Some(transformed_data),
                                raw_json_data |-> Some(file.content)],
                   outcome |-> "returned",
                   result  |-> transformed_data,
                   csv_calls |-> 0]

\* load_all_financial_data that goes to the source on every call.
load_all_financial_data_always(cache, file, dir) ==
    load_from_source(cache, file, dir) @@ [read |-> TRUE]

\* Lines 21-47: the whole function; read tells whether the call went past
\* the cache check of lines 23-24.
load_all_financial_data(cache, file, dir) ==
    IF cache.all_data # None
    THEN [cache |-> cache, outcome |-> "returned", result |-> cache.all_data[1],
          csv_calls |-> 0, read |-> FALSE]
    ELSE load_from_source(cache, file, dir) @@ [read |-> TRUE]

\* What a request leaves behind for the properties to look at.
Call(op, hit, r, status) ==
    [op |-> op, prev |-> last_call.op, hit |-> hit, read |-> r.read,
     outcome |-> r.outcome, result |-> r.result, status |-> status,
     csv_calls |-> r.csv_calls, file |-> json_file, dir |-> csv_dir]

NoLoad == [read |-> FALSE, outcome |-> "none", result |-> Raised, csv_calls |-> 0]

\* Any endpoint that starts with data = load_all_financial_data().
Load ==
    LET r == load_all_financial_data(data_cache, json_file, csv_dir)
    IN  /\ data_cache' = r.cache
        /\ last_call' = Call("load", data_cache.all_data # None, r,
                             IF r.outcome = "raised" THEN 500 ELSE 200)
        /\ UNCHANGED <<json_file, csv_dir, readers, consolidatorVars, extractVars, normalizer>>

\* clear_cache (lines 388-392).
ClearCache ==
    /\ data_cache' = EmptyCache
    /\ last_call' = Call("clear", data_cache.all_data # None, NoLoad, 200)
    /\ UNCHANGED <<json_file, csv_dir, readers, consolidatorVars, extractVars, normalizer>>

\* get_raw_consolidated_data (lines 622-631): the load, then the raw data
\* if it is cached and the 404 'Raw data not available' if it is not.
GetRaw ==
    LET r == load_all_financial_data(data_cache, json_file, csv_dir)
    IN  /\ data_cache' = r.cache
        /\ last_call' = Call("raw", data_cache.all_data # None, r,
                             IF r.outcome = "raised" THEN 500
                             ELSE IF r.cache.raw_json_data # None THEN 200
                             ELSE 404)
        /\ UNCHANGED <<json_file, csv_dir, readers, consolidatorVars, extractVars, normalizer>>

\* The sources the cache is built from, as the environment leaves them:
\* the extraction batch writes them, an operator removes or damages them.
E_2019_2020 ==
    [period |-> Key_2019_2020,
     data |-> YearData(Key_2019_2020, Some([ratio |-> "N/A", issue_price |-> None]),
                       TRUE, TRUE)]
E_2020_2021 ==
    [period |-> Key_2020_2021,
     data |-> YearData(Key_2020_2021, Some([ratio |-> "1:5", issue_price |-> Some(8000)]),
                       TRUE, TRUE)]
E_2021_2021 ==
    [period |-> Key_2021_2021, data |-> YearData(Key_2021_2021, None, TRUE, TRUE)]
E_2019 ==
    [period |-> Key_2019, data |-> YearData(Key_2019, None, TRUE, TRUE)]

JsonFiles ==
    { [exists |-> FALSE, readable |-> FALSE, content |-> <<>>],
      [exists |-> TRUE,  readable |-> FALSE, content |-> <<>>],
      [exists |-> TRUE,  readable |-> TRUE,  content |-> <<>>],
      [exists |-> TRUE,  readable |-> TRUE,  content |-> <<E_2020_2021, E_2019_2020>>],
      [exists |-> TRUE,  readable |-> TRUE,
       content |-> <<E_2019_2020, E_2020_2021, E_2021_2021>>],
      [exists |-> TRUE,  readable |-> TRUE,  content |-> <<E_2019_2020, E_2019>>] }

CsvDirs ==
    { [listable |-> FALSE, files |-> <<>>],
      [listable |-> TRUE,  files |-> <<>>],
      [listable |-> TRUE,  files |-> <<E_2020_2021, E_2019_2020>>],
      [listable |-> TRUE,  files |-> <<E_2019>>] }

WriteJson(file) ==
    /\ file # json_file
    /\ json_file' = file
    /\ UNCHANGED <<csv_dir, data_cache, last_call, readers, consolidatorVars, extractVars, normalizer>>

WriteCsv(dir) ==
    /\ dir # csv_dir
    /\ csv_dir' = dir
    /\ UNCHANGED <<json_file, data_cache, last_call, readers, consolidatorVars, extractVars, normalizer>>

IdleConsolidator ==
    /\ consolidated_data = <<>>
    /\ transformed = NotRun

InitCache ==
    /\ json_file \in JsonFiles
    /\ csv_dir \in CsvDirs
    /\ data_cache = EmptyCache
    /\ last_call = [op |-> "none"]
    /\ readers = <<>>
    /\ IdleConsolidator
    /\ IdleExtract

NextCache ==
    \/ Load
    \/ ClearCache
    \/ GetRaw
    \/ \E file \in JsonFiles : WriteJson(file)
    \/ \E dir \in CsvDirs : WriteCsv(dir)

SpecCache == InitCache /\ [][NextCache]_vars

(***************************************************************************)
(* Requests served at the same time (the server of run.py is threaded):    *)
(* each runs load_all_financial_data line by line on the shared data_cache *)
(* and keeps consolidated_data, transformed_data and all_data to itself.   *)
(***************************************************************************)
Readers == {1, 2}

NewReader == [pc |-> "check", consolidated_data |-> <<>>, outcome |-> "none",
              result |-> Raised, read |-> FALSE]

\* A store that adds to the entry that is there instead of replacing it.
store_all_data_merged(cache, dataset) ==
    IF cache.all_data = None
    THEN [cache EXCEPT !.all_data = Some(dataset)]
    ELSE [cache EXCEPT !.all_data =
             Some([dataset EXCEPT !.yearlyData = cache.all_data[1].yearlyData \o @])]

\* Lines 40 and 383: data_cache['all_data'] = ...
store_all_data(cache, dataset) == [cache EXCEPT !.all_data = Some(dataset)]

Step(t, r) ==
    /\ readers' = [readers EXCEPT ![t] = r]
    /\ UNCHANGED <<json_file, csv_dir, last_call, consolidatorVars, extractVars, normalizer>>

\* Line 23: 'all_data' in data_cache.
CheckCache(t) ==
    /\ readers[t].pc = "check"
    /\ Step(t, [readers[t] EXCEPT !.pc = IF data_cache.all_data # None
                                         THEN "cached" ELSE "exists"])
    /\ UNCHANGED data_cache

\* Line 24: return data_cache['all_data'].
ReturnCached(t) ==
    /\ readers[t].pc = "cached"
    /\ Step(t, IF data_cache.all_data = None
               THEN [readers[t] EXCEPT !.pc = "done", !.outcome = "raised"]
               ELSE [readers[t] EXCEPT !.pc = "done", !.outcome = "returned",
                                       !.result = data_cache.all_data[1]])
    /\ UNCHANGED data_cache

\* Lines 26-30: os.path.exists(json_path).
CheckPath(t) ==
    /\ readers[t].pc = "exists"
    /\ Step(t, [readers[t] EXCEPT !.read = TRUE,
                                  !.pc = IF json_file.exists THEN "open" ELSE "csv"])
    /\ UNCHANGED data_cache

\* Lines 32-34: open and json.load; the except clause of line 44 leads to
\* load_from_csv_files.
ReadJson(t) ==
    /\ readers[t].pc = "open"
    /\ Step(t, IF json_file.readable
               THEN [readers[t] EXCEPT !.pc = "transform",
                                       !.consolidated_data = json_file.content]
               ELSE [readers[t] EXCEPT !.pc = "csv"])
    /\ UNCHANGED data_cache

\* Line 37: transformed_data = transform_consolidated_data(consolidated_data).
TransformJson(t) ==
    /\ readers[t].pc = "transform"
    /\ LET transformed_data == transform_consolidated_data(readers[t].consolidated_data)
       IN  Step(t, IF transformed_data = Raised
                   THEN [readers[t] EXCEPT !.pc = "csv"]
                   ELSE [readers[t] EXCEPT !.pc = "store_all",
                                           !.result = transformed_data])
    /\ UNCHANGED data_cache

\* Line 40.
StoreAllData(t) ==
    /\ readers[t].pc = "store_all"
    /\ data_cache' = store_all_data(data_cache, readers[t].result)
    /\ Step(t, [readers[t] EXCEPT !.pc = "store_raw"])

\* Lines 41-43.
StoreRawData(t) ==
    /\ readers[t].pc = "store_raw"
    /\ data_cache' = [data_cache EXCEPT !.raw_json_data =
                         Some(readers[t].consolidated_data)]
    /\ Step(t, [readers[t] EXCEPT !.pc = "done", !.outcome = "returned"])

\* Lines 227-380 of load_from_csv_files: the dataset of the CSV files,
\* built in the request's own all_data.
BuildFromCsv(t) ==
    /\ readers[t].pc = "csv"
    /\ LET all_data == csv_dataset(csv_dir)
       IN  Step(t, IF all_data = Raised
                   THEN [readers[t] EXCEPT !.pc = "done", !.outcome = "raised"]
                   ELSE [readers[t] EXCEPT !.pc = "csv_store", !.result = all_data])
    /\ UNCHANGED data_cache

\* Lines 383-385.
StoreCsvData(t) ==
    /\ readers[t].pc = "csv_store"
    /\ data_cache' = store_all_data(data_cache, readers[t].result)
    /\ Step(t, [readers[t] EXCEPT !.pc = "done", !.outcome = "returned"])

\* Two first requests on an empty cache; the source stays as it is.
InitReaders ==
    /\ json_file \in JsonFiles
    /\ csv_dir \in CsvDirs
    /\ data_cache = EmptyCache
    /\ last_call = [op |-> "none"]
    /\ readers = [t \in Readers |-> NewReader]
    /\ IdleConsolidator
    /\ IdleExtract

NextReaders ==
    \E t \in Readers :
        \/ CheckCache(t)
        \/ ReturnCached(t)
        \/ CheckPath(t)
        \/ ReadJson(t)
        \/ TransformJson(t)
        \/ StoreAllData(t)
        \/ StoreRawData(t)
        \/ BuildFromCsv(t)
        \/ StoreCsvData(t)

SpecReaders == InitReaders /\ [][NextReaders]_vars

\* A request has returned and the next one of the same thread comes in.
NewRequest(t) ==
    /\ readers[t].pc = "done"
    /\ Step(t, NewReader)
    /\ UNCHANGED data_cache

\* clear_cache (lines 388-392), served while other requests are running.
ClearWhileLoading ==
    /\ data_cache # EmptyCache
    /\ data_cache' = EmptyCache
    /\ UNCHANGED <<json_file, csv_dir, last_call, readers, consolidatorVars,
                   extractVars, normalizer>>

\* The requests of a running server: loads that overlap, clear_cache, and
\* an extraction batch that replaces the consolidated JSON file.
NextServer ==
    \/ \E t \in Readers :
          \/ CheckCache(t)
          \/ ReturnCached(t)
          \/ CheckPath(t)
          \/ ReadJson(t)
          \/ TransformJson(t)
          \/ StoreAllData(t)
          \/ StoreRawData(t)
          \/ BuildFromCsv(t)
          \/ StoreCsvData(t)
          \/ NewRequest(t)
    \/ ClearWhileLoading
    \/ \E file \in JsonFiles : WriteJson(file)

SpecServer == InitReaders /\ [][NextServer]_vars

(***************************************************************************)
(* The extractor (extract_financial_data.py).  Money is in thousands of    *)
(* LKR, share counts are plain numbers.  A document is its file name, its  *)
(* readability (PdfReader and the table backends raise on a file that      *)
(* cannot be read), the title line its first pages carry, and what its     *)
(* tables hold: "full" has a row for every metric, "bare" has none.        *)
(***************************************************************************)
File_19_20 == <<"r", "_", "1", "9", "-", "2", "0", ".", "p", "d", "f">>
File_20_21 == <<"r", "_", "2", "0", "-", "2", "1", ".", "p", "d", "f">>
File_22_23 == <<"r", "_", "2", "2", "-", "2", "3", ".", "p", "d", "f">>
File_23_24 == <<"r", "_", "2", "3", "-", "2", "4", ".", "p", "d", "f">>
File_2021  == <<"r", "2", "0", "2", "1", ".", "p", "d", "f">>
File_plain == <<"r", ".", "p", "d", "f">>

FileNames == {File_19_20, File_20_21, File_22_23, File_23_24, File_2021, File_plain}

\* 'Annual Report 2019/20' on the first pages, as the groups of the match.
Title_2019_20 == <<<<"2", "0", "1", "9">>, <<"2", "0">>>>

Titles == {None, Some(Title_2019_20)}

ClockYears == {2026, 2027}     \* datetime.now().year

\* sub in s, for Python strings.
Contains(s, sub) ==
    \E i \in 1..(Len(s) - Len(sub) + 1) : SubSeq(s, i, i + Len(sub) - 1) = sub

AllDigits(s) == \A i \in 1..Len(s) : IsDigit(s[i])

\* str(n) of a year of four digits.
YearText(n) ==
    << Digits[((n \div 1000) % 10) + 1], Digits[((n \div 100) % 10) + 1],
       Digits[((n \div 10) % 10) + 1], Digits[(n % 10) + 1] >>

\* Lines 35-77: the fiscal-period token of a document.
_extract_year_from_filename(doc, now) ==
    LET s == doc.file
        yy(i) == /\ i + 5 <= Len(s)
                 /\ s[i] = "_"
                 /\ AllDigits(SubSeq(s, i + 1, i + 2))
                 /\ s[i + 3] = "-"
                 /\ AllDigits(SubSeq(s, i + 4, i + 5))
        yyyy(i) == i + 3 <= Len(s) /\ AllDigits(SubSeq(s, i, i + 3))
    IN  IF \E i \in 1..Len(s) : yy(i)
        THEN LET i == CHOOSE j \in 1..Len(s) : yy(j) /\ \A k \in 1..(j - 1) : ~yy(k)
             IN  <<"2", "0">> \o SubSeq(s, i + 1, i + 2) \o <<"-">>
                   \o <<"2", "0">> \o SubSeq(s, i + 4, i + 5)
        ELSE IF \E i \in 1..Len(s) : yyyy(i)
        THEN LET i == CHOOSE j \in 1..Len(s) : yyyy(j) /\ \A k \in 1..(j - 1) : ~yyyy(k)
             IN  SubSeq(s, i, i + 3)
        ELSE IF doc.readable /\ doc.title # None
        THEN doc.title[1][1] \o <<"-">> \o <<"2", "0">> \o doc.title[1][2]
        ELSE YearText(now - 1) \o <<"-">> \o YearText(now)

\* int(self.year.split('-')[0]) - 2019, the argument of every placeholder.
YearsSince2019(year) == PyInt(SplitDash(year)[1])[1] - 2019

EmptyData ==
    [ total_revenue |-> None, cost_of_sales |-> None, operating_expenses |-> None,
      gross_profit |-> None, gross_profit_margin |-> None,
      earnings_per_share |-> None, net_asset_per_share |-> None,
      right_issues |-> None, top_shareholders |-> None ]

\* What the table rows of a "full" document hold for a metric.
TableValue(metric) ==
    CASE metric = "total_revenue"       -> 150000
      [] metric = "cost_of_sales"       -> 110000
      [] metric = "operating_expenses"  -> 21000
      [] metric = "gross_profit"        -> 40000
      [] metric = "earnings_per_share"  -> 1391
      [] metric = "net_asset_per_share" -> 16530

\* The rights-issue table of a "full" document, the label of a row first.
TableRightIssue ==
    << << <<"r", "a", "t", "i", "o">>, <<"1", ":", "5">> >>,
       << <<"i", "s", "s", "u", "e", " ", "p", "r", "i", "c", "e">>, <<"8", "0">> >> >>

TableShareholders ==
    << [name |-> "Melstacorp PLC",         percentage |-> 931, shares |-> Some(128917111)],
       [name |-> "Mr S E Captain",         percentage |-> 910, shares |-> Some(126044705)],
       [name |-> "HWIC Asia Fund",         percentage |-> 861, shares |-> Some(119200760)],
       [name |-> "Asian Development Bank", percentage |-> 470, shares |-> Some(65042006)],
       [name |-> "CIC Holdings PLC",       percentage |-> 255, shares |-> Some(35338032)] >>

\* The result of a resolver: it raised, or it stored into the record.
Raise       == [raised |-> TRUE]
Stored(d)   == [raised |-> FALSE, data |-> d]

\* A table scan finds the row of the metric in a "full" document that can
\* be read; an unreadable document gives no table at all.
Found(doc) == doc.readable /\ doc.content = "full"

\* The rows of the income statement that name a metric, as the values
\* _clean_numeric_value gives for their cells (thousands of LKR): the row of
\* the 'Income Statement' page, the row of a page with another heading, and
\* for the revenue the first number of the row text that tabula gives.
StatementRow(primary, alternate) == [primary |-> primary, alternate |-> alternate]

NoRow == StatementRow(<<>>, <<>>)

RowBlankThenValue  == StatementRow(<<None, Some(60000)>>, <<>>)
RowNoteThenValue   == StatementRow(<<Some(500), Some(60000)>>, <<>>)
RowZeroThenOther   == StatementRow(<<Some(0)>>, <<Some(500), Some(100000)>>)
RowOtherSmall      == StatementRow(<<>>, <<Some(500), Some(0)>>)
RowOtherValue      == StatementRow(<<>>, <<None, Some(100000)>>)
RowNegative        == StatementRow(<<Some(0 - 2000)>>, <<>>)
RowValue           == StatementRow(<<Some(100000), Some(60000)>>, <<>>)

StatementRows ==
    { NoRow, RowBlankThenValue, RowNoteThenValue, RowZeroThenOther,
      RowOtherSmall, RowOtherValue, RowNegative, RowValue }

\* The rows of a document: those of its statement, and for a "full"
\* document without one the row of TableValue on the 'Income Statement' page.
RowOf(doc, metric) ==
    IF "statement" \in DOMAIN doc THEN doc.statement[metric]
    ELSE IF Found(doc) THEN StatementRow(<<Some(TableValue(metric))>>, <<>>)
    ELSE NoRow

OcrOf(doc) == IF "statement" \in DOMAIN doc THEN doc.statement.ocr_revenue ELSE None

\* 'if value:' (lines 154, 230, 387).
truthy(value) == value # None /\ value[1] # 0

\* 'if value and value > 1000000:' (lines 175, 251, 405), in thousands.
above_threshold(value) == truthy(value) /\ value[1] > 1000

\* The first cell of the columns 1 to 3 that is truthy, if any.
primary_cell(cells) ==
    LET n   == IF Len(cells) < 3 THEN Len(cells) ELSE 3
        hit == { j \in 1..n : truthy(cells[j]) }
    IN  IF hit = {} THEN None
        ELSE cells[CHOOSE j \in hit : \A k \in hit : j <= k]

\* The first cell of the row above the threshold, if any.
alternate_cell(cells) ==
    LET hit == { j \in 1..Len(cells) : above_threshold(cells[j]) }
    IN  IF hit = {} THEN None
        ELSE cells[CHOOSE j \in hit : \A k \in hit : j <= k]

\* The table scans of a money resolver: the 'Income Statement' page first,
\* then the pages of the other headings.
table_value(doc, metric) ==
    LET row == RowOf(doc, metric)
    IN  IF primary_cell(row.primary) # None THEN primary_cell(row.primary)
        ELSE alternate_cell(row.alternate)

revenue_placeholder(year) == 100000 + YearsSince2019(year) * 10000

\* Lines 140-215.  fault: the scan of lines 145-157, which no try encloses,
\* raises on a malformed table.  Lines 183-207: the number of the tabula row
\* is stored as it is; a row whose number cannot be read counts as no row.
_extract_total_revenue(data, year, doc, fault) ==
    IF fault THEN Raise
    ELSE IF table_value(doc, "total_revenue") # None
    THEN Stored([data EXCEPT !.total_revenue = table_value(doc, "total_revenue")])
    ELSE IF OcrOf(doc) # None
    THEN Stored([data EXCEPT !.total_revenue = OcrOf(doc)])
    ELSE Stored([data EXCEPT !.total_revenue = Some(revenue_placeholder(year))])

\* int(x * 0.75) and int(x * 0.18): truncation towards zero.
PyIntOfRatio(x, percent) ==
    IF x >= 0 THEN (x * percent) \div 100 ELSE 0 - (((0 - x) * percent) \div 100)

\* Lines 217-269.
_extract_cost_of_sales(data, year, doc, fault) ==
    IF fault THEN Raise
    ELSE IF table_value(doc, "cost_of_sales") # None
    THEN Stored([data EXCEPT !.cost_of_sales = table_value(doc, "cost_of_sales")])
    ELSE IF data.total_revenue # None
    THEN Stored([data EXCEPT !.cost_of_sales = Some(PyIntOfRatio(data.total_revenue[1], 75))])
    ELSE Stored([data EXCEPT !.cost_of_sales = Some(75000 + YearsSince2019(year) * 8000)])

\* Lines 271-374.
_extract_operating_expenses(data, year, doc, fault) ==
    IF fault THEN Raise
    ELSE IF Found(doc)
    THEN Stored([data EXCEPT !.operating_expenses =
                    Some(TableValue("operating_expenses"))])
    ELSE IF data.total_revenue # None
    THEN Stored([data EXCEPT !.operating_expenses =
                    Some(PyIntOfRatio(data.total_revenue[1], 18))])
    ELSE Stored([data EXCEPT !.operating_expenses =
                    Some(18000 + YearsSince2019(year) * 1500)])

gross_profit_placeholder(year) == 25000 + YearsSince2019(year) * 2000

\* The identity taken before the tables are read.
_extract_gross_profit_derived_first(data, year, doc, fault) ==
    IF fault THEN Raise
    ELSE IF data.total_revenue # None /\ data.cost_of_sales # None
    THEN Stored([data EXCEPT !.gross_profit =
                    Some(data.total_revenue[1] - data.cost_of_sales[1])])
    ELSE IF table_value(doc, "gross_profit") # None
    THEN Stored([data EXCEPT !.gross_profit = table_value(doc, "gross_profit")])
    ELSE Stored([data EXCEPT !.gross_profit = Some(gross_profit_placeholder(year))])

\* Lines 376-419.
_extract_gross_profit(data, year, doc, fault) ==
    IF fault THEN Raise
    ELSE IF table_value(doc, "gross_profit") # None
    THEN Stored([data EXCEPT !.gross_profit = table_value(doc, "gross_profit")])
    ELSE IF data.total_revenue # None /\ data.cost_of_sales # None
    THEN Stored([data EXCEPT !.gross_profit =
                    Some(data.total_revenue[1] - data.cost_of_sales[1])])
    ELSE Stored([data EXCEPT !.gross_profit = Some(gross_profit_placeholder(year))])

\* round(x, 2) of the quotient a / b * 100, in hundredths, for b # 0.
\* The whole part and the rest of a / b are taken apart to stay within
\* 32 bits.
RoundedPercentOf(a, b) ==
    (a \div b) * 10000 + (((a % b) * 10000 + (b \div 2)) \div b)

RoundedPercent(a, b) ==
    IF b > 0 THEN RoundedPercentOf(a, b) ELSE RoundedPercentOf(0 - a, 0 - b)

\* Lines 421-431: no table is read and nothing here raises.
_calculate_gross_profit_margin(data, year, doc, fault) ==
    IF data.total_revenue # None /\ data.gross_profit # None /\ data.total_revenue[1] # 0
    THEN Stored([data EXCEPT !.gross_profit_margin =
                    Some(RoundedPercent(data.gross_profit[1], data.total_revenue[1]))])
    ELSE Stored([data EXCEPT !.gross_profit_margin =
                    Some(2000 - YearsSince2019(year) * 50)])

\* Lines 433-488.
_extract_eps(data, year, doc, fault) ==
    IF fault THEN Raise
    ELSE IF Found(doc)
    THEN Stored([data EXCEPT !.earnings_per_share = Some(TableValue("earnings_per_share"))])
    ELSE Stored([data EXCEPT !.earnings_per_share = Some(700 + YearsSince2019(year) * 50)])

\* Lines 490-530.
_extract_net_asset_per_share(data, year, doc, fault) ==
    IF fault THEN Raise
    ELSE IF Found(doc)
    THEN Stored([data EXCEPT !.net_asset_per_share =
                    Some(TableValue("net_asset_per_share"))])
    ELSE Stored([data EXCEPT !.net_asset_per_share =
                    Some(15000 + YearsSince2019(year) * 500)])

(***************************************************************************)
(* _clean_numeric_value (lines 1354-1388).  A float is the pair of its     *)
(* digits read as an integer and the number of digits after the point,     *)
(* without trailing zeros after the point: -1234.50 is [num |-> -12345,    *)
(* scale |-> 1] and 0.0 is [num |-> 0, scale |-> 0].                       *)
(***************************************************************************)
MaxLen == 4         \* characters of a cell text

Chars == {"0", "1", ".", "-", ",", "(", ")", "n", "a"}

Without(s, chars) == SelectSeq(s, LAMBDA c : c \notin chars) \o <<>>

\* re.sub(r'[^\d.-]', '', s)
numeric_chars(s) == SelectSeq(s, LAMBDA c : IsDigit(c) \/ c \in {".", "-"}) \o <<>>

\* The last index k >= from - 1 with digits only in from..k.
DigitsEnd(s, from) ==
    CHOOSE k \in (from - 1)..Len(s) :
        /\ \A j \in from..k : IsDigit(s[j])
        /\ k = Len(s) \/ ~IsDigit(s[k + 1])

\* re.search(r'([-+]?\d+\.?\d*)', s): the leftmost match, every part greedy.
number_match(s) ==
    LET starts == { i \in 1..Len(s) :
                      \/ IsDigit(s[i])
                      \/ s[i] \in {"-", "+"} /\ i < Len(s) /\ IsDigit(s[i + 1]) }
    IN  IF starts = {} THEN None
        ELSE LET i == CHOOSE j \in starts : \A k \in starts : j <= k
                 d == IF IsDigit(s[i]) THEN i ELSE i + 1
                 e == DigitsEnd(s, d)
                 p == IF e < Len(s) /\ s[e + 1] = "." THEN e + 1 ELSE e
             IN  Some(SubSeq(s, i, DigitsEnd(s, p + 1)))

RECURSIVE StripZeros(_)
StripZeros(s) ==
    IF s # <<>> /\ s[Len(s)] = "0" THEN StripZeros(SubSeq(s, 1, Len(s) - 1)) ELSE s

\* float(text): None where Python raises ValueError.
PyFloat(text) ==
    LET signed == text # <<>> /\ text[1] \in {"-", "+"}
        body   == IF signed THEN Tail(text) ELSE text
        points == { i \in 1..Len(body) : body[i] = "." }
    IN  IF \/ body = <<>>
           \/ Cardinality(points) > 1
           \/ \E i \in 1..Len(body) : ~IsDigit(body[i]) /\ body[i] # "."
           \/ body = <<".">>
        THEN None
        ELSE LET p     == IF points = {} THEN Len(body) + 1 ELSE CHOOSE i \in points : TRUE
                 whole == SubSeq(body, 1, p - 1)
                 frac  == StripZeros(SubSeq(body, p + 1, Len(body)))
                 n     == DigitsValue(whole \o frac)
             IN  Some([num   |-> IF signed /\ text[1] = "-" THEN 0 - n ELSE n,
                       scale |-> Len(frac)])

Returns(v) == [raised |-> FALSE, value |-> v]

Negated(x) == [x EXCEPT !.num = 0 - x.num]

Text_nan == <<"n", "a", "n">>

\* '(' and ')' both in the text (line 1372).
in_parentheses(s) == \E i, j \in 1..Len(s) : s[i] = "(" /\ s[j] = ")"

\* Lines 1372-1374.
unparenthesised(s, negative) == IF negative THEN Without(s, {"(", ")"}) ELSE s

\* Lines 1380-1383: float(match.group(1)) of a match.
float_of_match(match) == IF match = None THEN None ELSE PyFloat(match[1])

\* Lines 1381-1388: the sign, and None for no match or a ValueError.
signed_result(x, negative) ==
    IF x = None THEN Returns(None)
    ELSE Returns(Some(IF negative THEN Negated(x[1]) ELSE x[1]))

\* _clean_numeric_value with no test for parentheses.
_clean_numeric_value_unsigned(value_str) ==
    IF value_str = <<>> \/ value_str = Text_nan THEN Returns(None)
    ELSE Returns(float_of_match(number_match(numeric_chars(value_str))))

\* Lines 1354-1388: Returns(None) for None, Returns(Some(x)) for the float x; a ValueError of float() is caught (line 1385).
_clean_numeric_value(value_str) ==
    IF value_str = <<>> \/ value_str = Text_nan THEN Returns(None)
    ELSE signed_result(
            float_of_match(number_match(numeric_chars(
                unparenthesised(value_str, in_parentheses(value_str))))),
            in_parentheses(value_str))

(***************************************************************************)
(* _extract_right_issues (lines 532-586).  A table is the sequence of its  *)
(* rows and a row the sequence of its cell texts, in lower case, the label *)
(* first.                                                                  *)
(***************************************************************************)
MaxRows == 3        \* rows of a rights-issue table

Text_NA    == <<"N", "/", "A">>
Text_ratio == <<"r", "a", "t", "i", "o">>
Text_price == <<"p", "r", "i", "c", "e">>
Text_issue == <<"i", "s", "s", "u", "e">>
Text_date  == <<"d", "a", "t", "e">>

RowRatio        == << <<"r", "a", "t", "i", "o">>, <<"1", ":", "5">> >>
RowRatioColon   == << <<"r", "a", "t", "i", "o", ":">>, <<"1", ":", "5">> >>
RowPrice        == << <<"i", "s", "s", "u", "e", " ", "p", "r", "i", "c", "e">>, <<"8", "0">> >>
RowPriceLarge   == << <<"i", "s", "s", "u", "e", " ", "p", "r", "i", "c", "e">>, <<"1", "2", "5", "0">> >>
RowDate         == << <<"d", "a", "t", "e">>, <<"1", "2", "/", "0", "3", "/", "2", "0", "2", "0">> >>
RowDateOfIssue  == << <<"d", "a", "t", "e", " ", "o", "f", " ", "i", "s", "s", "u", "e">>, <<"1", "2", "-", "0", "3", "-", "2", "0", "2", "0">> >>
RowShares       == << <<"s", "h", "a", "r", "e", "s">>, <<"1", "2", "5", "0">> >>

RightsRows ==
    { RowRatio, RowRatioColon, RowPrice, RowPriceLarge, RowDate, RowDateOfIssue,
      RowShares }

\* The tables that the keyword passes give, in the order of the search.
RightsOf(doc) ==
    IF "rights" \in DOMAIN doc THEN doc.rights
    ELSE IF Found(doc) THEN <<TableRightIssue>>
    ELSE <<>>

\* str.strip() of blanks.
RECURSIVE Strip(_)
Strip(text) ==
    IF text # <<>> /\ text[1] = " " THEN Strip(Tail(text))
    ELSE IF text # <<>> /\ text[Len(text)] = " " THEN Strip(SubSeq(text, 1, Len(text) - 1))
    ELSE text

RowHas(row, word) == \E j \in 1..Len(row) : Contains(row[j], word)

\* The branch of the if / elif chain of lines 553-569 that a row takes.
row_branch(row) ==
    IF RowHas(row, Text_ratio) THEN "ratio"
    ELSE IF RowHas(row, Text_price) \/ RowHas(row, Text_issue) THEN "price"
    ELSE IF RowHas(row, Text_date) THEN "date"
    ELSE "other"

RECURSIVE Pow10(_)
Pow10(k) == IF k = 0 THEN 1 ELSE 10 * Pow10(k - 1)

\* A float of at most two decimals, in hundredths.
Hundredths(x) ==
    IF x.scale <= 2 THEN x.num * Pow10(2 - x.scale) ELSE x.num \div Pow10(x.scale - 2)

\* 'value is not None and 0 < value < 1000' (line 562).
is_issue_price(value) ==
    value # None /\ 0 < value[1].num /\ value[1].num < 1000 * Pow10(value[1].scale)

IsSeparator(c) == c \in {"-", "/", "."}

\* re.search(r'\d{1,2}[-/\.]\d{1,2}[-/\.]\d{2,4}', cell)
is_date(cell) ==
    \E i \in 1..Len(cell), a \in 1..2, b \in 1..2 :
        /\ i + a + b + 3 <= Len(cell)
        /\ \A j \in i..(i + a - 1) : IsDigit(cell[j])
        /\ IsSeparator(cell[i + a])
        /\ \A j \in (i + a + 1)..(i + a + b) : IsDigit(cell[j])
        /\ IsSeparator(cell[i + a + b + 1])
        /\ IsDigit(cell[i + a + b + 2]) /\ IsDigit(cell[i + a + b + 3])

First(hits) == CHOOSE j \in hits : \A k \in hits : j <= k
Last(hits)  == CHOOSE j \in hits : \A k \in hits : j >= k

\* What a row gives in its branch: the first cell that passes the test.
ratio_of(row) ==
    LET hits == { j \in 1..Len(row) : Contains(row[j], <<":">>) }
    IN  IF row_branch(row) # "ratio" \/ hits = {} THEN None
        ELSE Some(Strip(row[First(hits)]))

first_price(values) ==
    LET hits == { j \in 1..Len(values) : is_issue_price(values[j]) }
    IN  IF hits = {} THEN None ELSE Some(Hundredths(values[First(hits)][1]))

price_of(row) ==
    IF row_branch(row) # "price" THEN None
    ELSE first_price(Listed([j \in 1..Len(row) |-> _clean_numeric_value(row[j]).value]))

date_of(row) ==
    LET hits == { j \in 1..Len(row) : is_date(row[j]) }
    IN  IF row_branch(row) # "date" \/ hits = {} THEN None
        ELSE Some(Strip(row[First(hits)]))

\* The loop of lines 550-569 over the rows of a table: a later row that
\* gives an attribute replaces what an earlier row gave.
last_given(values) ==
    LET hits == { i \in 1..Len(values) : values[i] # None }
    IN  IF hits = {} THEN None ELSE values[Last(hits)]

table_ratio(table) == last_given(Listed([i \in 1..Len(table) |-> ratio_of(table[i])]))

table_price(table) == last_given(Listed([i \in 1..Len(table) |-> price_of(table[i])]))

table_date(table) == last_given(Listed([i \in 1..Len(table) |-> date_of(table[i])]))

\* Lines 572-578: the record of a table that gives at least one attribute.
right_issues_record(ratio, issue_price, date) ==
    IF ratio = None /\ issue_price = None /\ date = None
    THEN None
    ELSE Some([ ratio       |-> IF ratio = None THEN Text_NA ELSE ratio[1],
                issue_price |-> issue_price,
                date        |-> IF date = None THEN Text_NA ELSE date[1] ])

right_issues_of_table(table) ==
    right_issues_record(table_ratio(table), table_price(table), table_date(table))

no_right_issues == [ratio |-> Text_NA, issue_price |-> None, date |-> Text_NA]

\* Lines 581-585: the record of the first table that gives one, else
\* 'N/A' thrice.
first_record(records) ==
    LET hits == { i \in 1..Len(records) : records[i] # None }
    IN  IF hits = {} THEN Some(no_right_issues) ELSE records[First(hits)]

right_issues_of(tables) ==
    first_record(Listed([i \in 1..Len(tables) |-> right_issues_of_table(tables[i])]))

\* Lines 532-586.
_extract_right_issues(data, year, doc, fault) ==
    IF fault THEN Raise
    ELSE Stored([data EXCEPT !.right_issues = right_issues_of(RightsOf(doc))])

\* Lines 873-896: the table of the 2023-24 report kept in the code.
hard_coded_shareholders ==
    << [name |-> "Melstacorp PLC", percentage |-> 931, shares |-> Some(128917111)],
       [name |-> "Mr S E Captain", percentage |-> 910, shares |-> Some(126044705)],
       [name |-> "HWIC Asia Fund", percentage |-> 861, shares |-> Some(119200760)],
       [name |-> "Paints and General Industries Limited",
        percentage |-> 727, shares |-> Some(100717931)],
       [name |-> "Asian Development Bank", percentage |-> 470, shares |-> Some(65042006)],
       [name |-> "Citigroup Global Markets Limited Agency Trading",
        percentage |-> 447, shares |-> Some(61904939)],
       [name |-> "Schroder International Selection Fund",
        percentage |-> 321, shares |-> Some(44418290)],
       [name |-> "CIC Holdings PLC", percentage |-> 255, shares |-> Some(35338032)],
       [name |-> "Aberdeen Standard Asia Focus PLC",
        percentage |-> 241, shares |-> Some(33398572)],
       [name |-> "Norges Bank Account 2", percentage |-> 230, shares |-> Some(31901605)],
       [name |-> "Sri Lanka Insurance Corporation Limited - Life Fund",
        percentage |-> 158, shares |-> Some(21846511)],
       [name |-> "Mr Kandiah Balendra", percentage |-> 141, shares |-> Some(19511476)],
       [name |-> "Employees Trust Fund Board",
        percentage |-> 134, shares |-> Some(18499897)],
       [name |-> "Mrs C S De Fonseka", percentage |-> 127, shares |-> Some(17606991)],
       [name |-> "Edgbaston Asian Equity Trust",
        percentage |-> 127, shares |-> Some(17520023)],
       [name |-> "Fidelity Fund - Pacific", percentage |-> 110, shares |-> Some(15244082)],
       [name |-> "Mrs S A J De Fonseka", percentage |-> 110, shares |-> Some(15204230)],
       [name |-> "Polypak Secco Limited", percentage |-> 108, shares |-> Some(14937924)],
       [name |-> "Chemanex PLC", percentage |-> 95, shares |-> Some(13105475)],
       [name |-> "Sunsuper Superannuation Fund",
        percentage |-> 84, shares |-> Some(11587196)] >>

PlaceholderNames ==
    << "Major Shareholder 0", "Major Shareholder 1", "Major Shareholder 2",
       "Major Shareholder 3", "Major Shareholder 4", "Major Shareholder 5",
       "Major Shareholder 6", "Major Shareholder 7", "Major Shareholder 8",
       "Major Shareholder 9" >>

\* Lines 1215-1221: round(20 / (i + 1), 2) and int(1000000 / (i + 1)), i = 0..9.
placeholder_shareholders ==
    [ k \in 1..Len(PlaceholderNames) |->
        [ name       |-> PlaceholderNames[k],
          percentage |-> (2 * 2000 + k) \div (2 * k),
          shares     |-> Some(1000000 \div k) ] ] \o <<>>

Text_23_24     == <<"2", "3", "-", "2", "4">>
Text_2023_2024 == <<"2", "0", "2", "3", "-", "2", "0", "2", "4">>
Text_22_23     == <<"2", "2", "-", "2", "3">>
Text_2022_2023 == <<"2", "0", "2", "2", "-", "2", "0", "2", "3">>

(***************************************************************************)
(* The shareholder tables.  A table is what a backend hands over for the   *)
(* shareholders page: the heading above it, whether its first row is a     *)
(* header, whether the word 'shareholder' and a '%' column are in it, and  *)
(* its rows.  Of a row the model keeps what the code tests: the text of    *)
(* the first cell (name), the size-band wording in it, whether it holds a  *)
(* company or title word ('plc', 'bank', 'fund', 'mr', ...), and the       *)
(* values _clean_numeric_value gives for its percentage and shares cells   *)
(* (None for a cell with no number).  The code's search for the columns is *)
(* taken to find them.                                                     *)
(***************************************************************************)
MaxTables == 2      \* tables on the shareholders page


TableRow(name, wording, term, pct, shares) ==
    [name |-> name, wording |-> wording, term |-> term, pct |-> pct, shares |-> shares]

TableOf(title, header, says_shareholder, pct_marked, rows) ==
    [title |-> title, header |-> header, says_shareholder |-> says_shareholder,
     pct_marked |-> pct_marked, rows |-> Listed(rows)]

HolderNames ==
    << "Holder 01 PLC", "Holder 02 PLC", "Holder 03 PLC", "Holder 04 PLC",
       "Holder 05 PLC", "Holder 06 PLC", "Holder 07 PLC", "Holder 08 PLC",
       "Holder 09 PLC", "Holder 10 PLC", "Holder 11 PLC", "Holder 12 PLC",
       "Holder 13 PLC", "Holder 14 PLC", "Holder 15 PLC", "Holder 16 PLC",
       "Holder 17 PLC", "Holder 18 PLC", "Holder 19 PLC", "Holder 20 PLC",
       "Holder 21 PLC", "Holder 22 PLC" >>

HolderRow(k, pct) == TableRow(HolderNames[k], "plain", TRUE, pct, Some(5000000 - 1000 * k))

\* A ranked list under the heading 'Twenty largest shareholders'.
HoldersTable(rows) == TableOf("top20", TRUE, TRUE, TRUE, rows)

G22 == HoldersTable([k \in 1..22 |-> HolderRow(k, Some(100 + 25 * k))])
G20 == HoldersTable([k \in 1..20 |-> HolderRow(k, Some(2500 - 100 * k))])
G5  == HoldersTable([k \in 1..5 |-> HolderRow(k, Some(2500 - 100 * k))])
G4  == HoldersTable([k \in 1..4 |-> HolderRow(k, Some(2500 - 100 * k))])
G7x ==
    LET pcts == <<Some(0), Some(10000), Some(1500), Some(900), Some(1200), Some(300),
                  Some(600)>>
    IN  HoldersTable([k \in 1..7 |-> HolderRow(k, pcts[k])])
G6n ==
    LET pcts == <<None, None, Some(1500), Some(900), Some(1200), Some(300)>>
    IN  HoldersTable([k \in 1..6 |-> HolderRow(k, pcts[k])])

\* Distribution by size of holding: five bands, each with a share count and
\* a percentage.
D5less ==
    TableOf("distribution of", TRUE, TRUE, TRUE,
      << TableRow("Less than or equal to 1,000", "less than", FALSE, Some(150), Some(9000)),
         TableRow("1,001 to 10,000", "x to y", FALSE, Some(450), Some(2500)),
         TableRow("10,001 to 100,000", "x to y", FALSE, Some(900), Some(800)),
         TableRow("100,001 to 1,000,000", "x to y", FALSE, Some(1500), Some(150)),
         TableRow("Over 1,000,000", "plain", FALSE, Some(7000), Some(60)) >>)
D5range ==
    TableOf("other", TRUE, TRUE, TRUE,
      << TableRow("1 to 1,000", "x to y", FALSE, Some(150), Some(9000)),
         TableRow("1,001 to 10,000", "x to y", FALSE, Some(450), Some(2500)),
         TableRow("10,001 to 100,000", "x to y", FALSE, Some(900), Some(800)),
         TableRow("100,001 to 1,000,000", "x to y", FALSE, Some(1500), Some(150)),
         TableRow("1,000,001 to 9,999,999", "x to y", FALSE, Some(7000), Some(60)) >>)

GenuineTables == {G22, G20, G5, G4, G7x, G6n}
DecoyTables   == {D5less, D5range}
PageTables    == GenuineTables \cup DecoyTables

\* The table of a "full" document.
FullTable ==
    HoldersTable([k \in 1..Len(TableShareholders) |->
        TableRow(TableShareholders[k].name, "plain", TRUE,
                 Some(TableShareholders[k].percentage), TableShareholders[k].shares)])

Backends == {"page", "tabula", "lattice", "stream"}

\* The shareholders page of a document: its tables in page order, and what
\* gets at them: the page text where the heading is found ("page"), tabula,
\* and the two flavors of camelot.
HoldersPage(doc) ==
    IF "page" \in DOMAIN doc THEN doc.page
    ELSE IF Found(doc) THEN [tables |-> <<FullTable>>, sees |-> Backends]
    ELSE [tables |-> <<>>, sees |-> {}]

\* name.lower() in ["name", "shareholder", "total", "nan"], or no name.
IsHeaderName(name) == name \in {"", "Name", "Shareholder", "Total", "nan"}

\* pct is not None and 0 < pct < 100.
valid_percentage(pct) == pct # None /\ 0 < pct[1] /\ pct[1] < 10000

\* shareholders[name] = pct and shareholdings[name] = shares, for dicts in
\* insertion order, as one list: a name stays where it came first and has
\* the values that came last.
shareholders_dict(entries) ==
    LET n == Len(entries)
        firsts == SelectSeq([i \in 1..n |-> i],
                            LAMBDA i : \A j \in 1..(i - 1) : entries[j].name # entries[i].name)
        last(i) == CHOOSE j \in 1..n :
                      /\ entries[j].name = entries[i].name
                      /\ \A k \in (j + 1)..n : entries[k].name # entries[i].name
    IN  Listed([k \in 1..Len(firsts) |-> entries[last(firsts[k])]])

EntryOf(row) ==
    [name |-> row.name, percentage |-> IF row.pct = None THEN 0 ELSE row.pct[1],
     shares |-> row.shares]

\* The rows a path keeps: a name that is no header, a valid percentage.
valid_entries(rows) ==
    LET kept == SelectSeq(rows, LAMBDA r : ~IsHeaderName(r.name) /\ valid_percentage(r.pct))
    IN  shareholders_dict(Listed([i \in 1..Len(kept) |-> EntryOf(kept[i])]))

\* sorted(shareholders.items(), key=lambda x: x[1], reverse=True): a stable
\* sort, so an entry comes after those of a greater percentage and after
\* the earlier ones of an equal percentage.
sorted_shareholders(d) ==
    LET n == Len(d)
        place(i) == 1 + Cardinality({ j \in 1..n :
                          \/ d[j].percentage > d[i].percentage
                          \/ (d[j].percentage = d[i].percentage /\ j < i) })
    IN  Listed([k \in 1..n |-> d[CHOOSE i \in 1..n : place(i) = k]])

\* A list that is cut to twenty entries and left in the order of the table.
top_20_unsorted(d) == SubSeq(d, 1, IF Len(d) < 20 THEN Len(d) ELSE 20)

\* sorted_shareholders[:20].
top_20(d) ==
    LET sorted == sorted_shareholders(d)
    IN  SubSeq(sorted, 1, IF Len(sorted) < 20 THEN Len(sorted) ELSE 20)

\* A candidate that is taken whatever the number of its pairs.
accept_any(d) == IF Len(d) >= 1 THEN Some(top_20(d)) ELSE None

\* if len(shareholders) >= 5: ... self.data['top_shareholders'] = top_20_dict.
accept(d) == IF Len(d) >= 5 THEN Some(top_20(d)) ELSE None

\* len(df) of a camelot table, whose header is its first row.
DfLen(table) == Len(table.rows) + (IF table.header THEN 1 ELSE 0)

\* Lines 623-691: a table of tabula.
from_tabula(table) ==
    IF Len(table.rows) >= 5 /\ \E i \in 1..Len(table.rows) : table.rows[i].term
    THEN accept(valid_entries(table.rows))
    ELSE None

\* Lines 711-796: a table of the camelot grid of the 2023-24 report.
from_camelot_grid(table) ==
    IF \E i \in 1..Len(table.rows) : table.rows[i].wording \in {"distribution", "less than"}
    THEN None
    ELSE IF \E i \in 1..Len(table.rows) : table.rows[i].term
    THEN accept(valid_entries(table.rows))
    ELSE None

\* Lines 804-869: the lines of the page text after the heading.
from_page_text(rows) == accept(valid_entries(rows))

\* The first cells of the rows, as line 947 means to collect them.
row_values_first_column(table) ==
    [i \in 1..Len(table.rows) |->
        [wording |-> table.rows[i].wording, term |-> table.rows[i].term]]

\* Line 947: str(row[0]) for row in df.iterrows().  iterrows gives pairs
\* (index, row), so row[0] is the index label 0, 1, 2, ...: a number, with
\* no band wording and no company word in it.
row_values(table) ==
    [i \in 1..DfLen(table) |-> [wording |-> "plain", term |-> FALSE]]

\* Lines 936-1039: a table of the 2022-23 report.  A row counts with a
\* share count alone, its percentage then is 0 (lines 1021-1022).
from_camelot_22_23(table) ==
    LET values == row_values(table)
        kept == SelectSeq(table.rows, LAMBDA r :
                    /\ ~IsHeaderName(r.name) /\ r.name # "Shareholders"
                    /\ (r.shares # None \/ r.pct # None)
                    /\ (r.pct = None \/ (0 <= r.pct[1] /\ r.pct[1] < 10000)))
    IN  IF \E i \in 1..Len(table.rows) : table.rows[i].wording = "distribution"
        THEN None
        ELSE IF DfLen(table) < 5 THEN None
        ELSE IF \E i \in 1..Len(values) : values[i].wording \in {"less than", "x to y"}
        THEN None
        ELSE IF \E i \in 1..Len(values) : values[i].term
        THEN accept(shareholders_dict(Listed([i \in 1..Len(kept) |-> EntryOf(kept[i])])))
        ELSE None

\* Lines 1047-1127: a table of the lattice pass.
from_lattice_table(table) ==
    IF table.pct_marked THEN accept(valid_entries(table.rows)) ELSE None

\* Lines 1134-1213: a table of the stream pass.
from_stream_table(table) ==
    IF table.says_shareholder /\ table.pct_marked
    THEN accept(valid_entries(table.rows))
    ELSE None

\* The tables are tried in turn and the first result is returned.
FirstAccepted(tables, path(_)) ==
    LET hits == {i \in 1..Len(tables) : path(tables[i]) # None}
    IN  IF hits = {} THEN None
        ELSE path(tables[CHOOSE i \in hits : \A j \in hits : i <= j])

camelot_tables(page, flavor) == IF flavor \in page.sees THEN page.tables ELSE <<>>

\* _extract_tables_from_page for a shareholders keyword: the lattice tables,
\* or the stream tables where lattice finds none or is not asked for.
chain_tables(page, lattice) ==
    IF lattice /\ "lattice" \in page.sees THEN page.tables
    ELSE camelot_tables(page, "stream")

\* Lines 810-820: the rows from the heading of the list to the heading
\* 'distribution of ...', if there is one.
RECURSIVE shareholders_section(_, _)
shareholders_section(tables, inside) ==
    IF tables = <<>> THEN <<>>
    ELSE LET t == Head(tables)
         IN  IF ~inside
             THEN IF t.title = "top20"
                  THEN t.rows \o shareholders_section(Tail(tables), TRUE)
                  ELSE shareholders_section(Tail(tables), FALSE)
             ELSE IF t.title = "distribution of" THEN <<>>
             ELSE t.rows \o shareholders_section(Tail(tables), TRUE)

FirstOf(results) ==
    LET hits == {i \in 1..Len(results) : results[i].list # None}
    IN  results[CHOOSE i \in hits : \A j \in hits : i <= j]

From(path, list) == [path |-> path, list |-> list]

\* Lines 1043-1221: the lattice pass, the stream pass, the placeholder.
standard_shareholders(page) ==
    FirstOf(<< From("lattice", FirstAccepted(chain_tables(page, TRUE), from_lattice_table)),
               From("stream", FirstAccepted(chain_tables(page, FALSE), from_stream_table)),
               From("placeholder", Some(placeholder_shareholders)) >>)

\* The hard-coded table taken first, whatever the page holds.
shareholders_23_24_override(page) == From("hard_coded", Some(hard_coded_shareholders))

\* Lines 595-900: the 2023-24 report.  The page is looked up in the text;
\* tabula, the camelot grid and the page text are tried on it, and the
\* hard-coded table is what is left when none of them gives a list.
shareholders_23_24(page) ==
    LET found == "page" \in page.sees
                 /\ \E i \in 1..Len(page.tables) : page.tables[i].title = "top20"
        tried == << From("tabula", IF found /\ "tabula" \in page.sees
                                   THEN FirstAccepted(page.tables, from_tabula)
                                   ELSE None),
                    From("grid", IF found
                                 THEN FirstAccepted(camelot_tables(page, "lattice")
                                                      \o camelot_tables(page, "stream"),
                                                    from_camelot_grid)
                                 ELSE None),
                    From("text", IF found
                                 THEN from_page_text(shareholders_section(page.tables, FALSE))
                                 ELSE None),
                    From("hard_coded", Some(hard_coded_shareholders)) >>
    IN  FirstOf(tried)

\* Lines 903-1041, then the standard passes: the 2022-23 report.
shareholders_22_23(page) ==
    FirstOf(<< From("22-23", FirstAccepted(camelot_tables(page, "lattice")
                                             \o camelot_tables(page, "stream"),
                                           from_camelot_22_23)),
               standard_shareholders(page) >>)

is_23_24(doc, year) == Contains(doc.file, Text_23_24) \/ Contains(year, Text_2023_2024)
is_22_23(doc, year) == Contains(doc.file, Text_22_23) \/ Contains(year, Text_2022_2023)

\* What _extract_top_shareholders stores for a document it can read, and the
\* path the list comes from.
top_shareholders_of(doc, year) ==
    IF is_23_24(doc, year) THEN shareholders_23_24(HoldersPage(doc))
    ELSE IF is_22_23(doc, year) THEN shareholders_22_23(HoldersPage(doc))
    ELSE standard_shareholders(HoldersPage(doc))

\* Lines 588-1221.  The PdfReader calls of lines 597 and 905 and the page
\* and table scans that follow them stand outside every try: the first
\* raises on a file that cannot be read, the scans (fault) on a malformed
\* page or table.
_extract_top_shareholders(data, year, doc, fault) ==
    IF fault \/ (~doc.readable /\ (is_23_24(doc, year) \/ is_22_23(doc, year)))
    THEN Raise
    ELSE Stored([data EXCEPT !.top_shareholders = top_shareholders_of(doc, year).list])

\* The resolvers in the order extract_all_metrics calls them (lines 84-136).
Resolvers ==
    << "total_revenue", "cost_of_sales", "operating_expenses", "gross_profit",
       "gross_profit_margin", "earnings_per_share", "net_asset_per_share",
       "right_issues", "top_shareholders" >>

\* The resolvers that scan tables outside a try.
ScanResolvers == Range(Resolvers) \ {"gross_profit_margin"}

\* A scan raises on the malformed tables of a document that can be read; a
\* document that cannot be read gives the scans no table to walk.
Faults(doc, metric) == doc.readable /\ metric \in doc.faulty

\* Lines 24-33: the constructor.
NewExtractor(doc, now) ==
    [ pc |-> "extracting", doc |-> doc, year |-> _extract_year_from_filename(doc, now),
      data |-> EmptyData, step |-> 1, ran |-> <<>>, errors |-> <<>> ]

\* A try whose except clause is missing: the method ends at the resolver
\* that raised.
try_resolver_uncaught(x, metric, result) ==
    IF result.raised
    THEN [ x EXCEPT !.pc = "returned", !.ran = Append(@, metric),
                    !.errors = Append(@, metric) ]
    ELSE [ x EXCEPT !.step = @ + 1, !.ran = Append(@, metric), !.data = result.data ]

\* One try/except of extract_all_metrics: the resolver stores into the
\* record, or its exception is logged and the record is left as it was.
try_resolver(x, metric, result) ==
    [ x EXCEPT !.step   = @ + 1,
               !.ran    = Append(@, metric),
               !.data   = IF result.raised THEN @ ELSE result.data,
               !.errors = IF result.raised THEN Append(@, metric) ELSE @ ]

AtResolver(metric) ==
    /\ extractor.pc = "extracting"
    /\ extractor.step <= Len(Resolvers)
    /\ Resolvers[extractor.step] = metric

ResolverOutcome(metric) ==
    LET d == extractor.data
        y == extractor.year
        doc == extractor.doc
        f == Faults(doc, metric)
    IN  CASE metric = "total_revenue"       -> _extract_total_revenue(d, y, doc, f)
          [] metric = "cost_of_sales"       -> _extract_cost_of_sales(d, y, doc, f)
          [] metric = "operating_expenses"  -> _extract_operating_expenses(d, y, doc, f)
          [] metric = "gross_profit"        -> _extract_gross_profit(d, y, doc, f)
          [] metric = "gross_profit_margin" -> _calculate_gross_profit_margin(d, y, doc, f)
          [] metric = "earnings_per_share"  -> _extract_eps(d, y, doc, f)
          [] metric = "net_asset_per_share" -> _extract_net_asset_per_share(d, y, doc, f)
          [] metric = "right_issues"        -> _extract_right_issues(d, y, doc, f)
          [] metric = "top_shareholders"    -> _extract_top_shareholders(d, y, doc, f)

RunResolver(metric) ==
    /\ AtResolver(metric)
    /\ extractor' = try_resolver(extractor, metric, ResolverOutcome(metric))
    /\ UNCHANGED <<consolidatorVars, cacheVars, chain, batch, normalizer>>

\* Lines 84-136, one action for each try/except.
ExtractTotalRevenue      == RunResolver("total_revenue")
ExtractCostOfSales       == RunResolver("cost_of_sales")
ExtractOperatingExpenses == RunResolver("operating_expenses")
ExtractGrossProfit       == RunResolver("gross_profit")
CalculateGrossProfitMargin == RunResolver("gross_profit_margin")
ExtractEps               == RunResolver("earnings_per_share")
ExtractNetAssetPerShare  == RunResolver("net_asset_per_share")
ExtractRightIssues       == RunResolver("right_issues")
ExtractTopShareholders   == RunResolver("top_shareholders")

\* Line 138: return self.data.
ReturnData ==
    /\ extractor.pc = "extracting"
    /\ extractor.step = Len(Resolvers) + 1
    /\ extractor' = [extractor EXCEPT !.pc = "returned"]
    /\ UNCHANGED <<consolidatorVars, cacheVars, chain, batch, normalizer>>

ExtractAllMetrics ==
    \/ ExtractTotalRevenue
    \/ ExtractCostOfSales
    \/ ExtractOperatingExpenses
    \/ ExtractGrossProfit
    \/ CalculateGrossProfitMargin
    \/ ExtractEps
    \/ ExtractNetAssetPerShare
    \/ ExtractRightIssues
    \/ ExtractTopShareholders
    \/ ReturnData

\* Every document: one that cannot be read has no title, table or scan.
Documents ==
    { d \in [ file : FileNames, readable : BOOLEAN, title : Titles,
              content : {"full", "bare"}, faulty : SUBSET ScanResolvers ] :
        ~d.readable => (d.title = None /\ d.content = "bare" /\ d.faulty = {}) }

\* extract_financial_data builds an extractor for one document (line 1528).
Construct ==
    /\ extractor.pc = "idle"
    /\ batch.pc = "idle"
    /\ \E doc \in Documents, now \in ClockYears : extractor' = NewExtractor(doc, now)
    /\ UNCHANGED <<consolidatorVars, cacheVars, chain, batch, normalizer>>

\* The documents with a shareholders page: a 2019-20, a 2022-23 and a
\* 2023-24 report, the tables of the page in either order, and the backends
\* that get at them.
HolderPages ==
    { [tables |-> t, sees |-> b] :
        t \in UNION { [1..n -> PageTables] : n \in 0..MaxTables },
        b \in { {}, {"page"}, {"lattice"}, {"stream"}, {"page", "tabula"},
                {"page", "lattice"}, {"page", "stream"}, Backends } }

HolderDocuments ==
    { [file |-> f, readable |-> TRUE, title |-> None, content |-> "bare",
       faulty |-> {}, page |-> p] :
        f \in {File_19_20, File_22_23, File_23_24}, p \in HolderPages }

ConstructForPage ==
    /\ extractor.pc = "idle"
    /\ batch.pc = "idle"
    /\ \E doc \in HolderDocuments, now \in ClockYears :
          extractor' = NewExtractor(doc, now)
    /\ UNCHANGED <<consolidatorVars, cacheVars, chain, batch, normalizer>>

\* The documents with an income statement: the rows of the three money
\* metrics in every combination, a file name with and without a period,
\* and a scan of the revenue or of the cost of sales that raises.
Statements ==
    [ total_revenue : StatementRows, cost_of_sales : StatementRows,
      gross_profit : StatementRows, ocr_revenue : {None, Some(500)} ]

StatementDocuments ==
    { [file |-> f, readable |-> TRUE, title |-> None, content |-> "bare",
       faulty |-> x, statement |-> st] :
        f \in {File_19_20, File_plain},
        x \in {{}, {"total_revenue"}, {"cost_of_sales"}},
        st \in Statements }

ConstructForStatement ==
    /\ extractor.pc = "idle"
    /\ batch.pc = "idle"
    /\ \E doc \in StatementDocuments, now \in ClockYears :
          extractor' = NewExtractor(doc, now)
    /\ UNCHANGED <<consolidatorVars, cacheVars, chain, batch, normalizer>>

InitDoc ==
    /\ IdleConsolidator
    /\ IdleCache
    /\ IdleExtract

NextDoc ==
    \/ Construct
    \/ ExtractAllMetrics

SpecDoc == InitDoc /\ [][NextDoc]_vars

\* The documents with rights-issue tables: one table of up to MaxRows rows,
\* or two tables of at most one row each.
RightsTables == UNION { [1..n -> RightsRows] : n \in 0..MaxRows }

RightsPages ==
    { <<t>> : t \in RightsTables }
    \cup { <<t, u>> : t, u \in { x \in RightsTables : Len(x) <= 1 } }
    \cup { <<>> }

RightsDocuments ==
    { [file |-> File_19_20, readable |-> TRUE, title |-> None, content |-> "bare",
       faulty |-> {}, rights |-> p] : p \in RightsPages }

ConstructForRights ==
    /\ extractor.pc = "idle"
    /\ batch.pc = "idle"
    /\ \E doc \in RightsDocuments, now \in ClockYears :
          extractor' = NewExtractor(doc, now)
    /\ UNCHANGED <<consolidatorVars, cacheVars, chain, batch, normalizer>>

NextRights ==
    \/ ConstructForRights
    \/ ExtractAllMetrics

SpecRights == InitDoc /\ [][NextRights]_vars

NextStatement ==
    \/ ConstructForStatement
    \/ ExtractAllMetrics

SpecStatement == InitDoc /\ [][NextStatement]_vars

NextHolders ==
    \/ ConstructForPage
    \/ ExtractAllMetrics

SpecHolders == InitDoc /\ [][NextHolders]_vars

(***************************************************************************)
(* One call of _clean_numeric_value on a cell text.                        *)
(***************************************************************************)
Text_parenthesised == <<"(", "1", ",", "2", "3", "4", ".", "5", "0", ")">>
Text_LKR_million   == <<"L", "K", "R", " ", "1", ",", "0", "0", "0", ",", "0", "0", "0">>
Text_Rs_amount     == <<"R", "s", ".", " ", "5", "0", "0">>
Text_plus          == <<"+", "5">>

CellTexts ==
    UNION { [1..n -> Chars] : n \in 0..MaxLen }
    \cup {Text_parenthesised, Text_LKR_million, Text_Rs_amount, Text_plus, Text_nan}

CallClean ==
    /\ normalizer.pc = "idle"
    /\ \E text \in CellTexts : normalizer' = [pc |-> "called", value_str |-> text]
    /\ UNCHANGED <<consolidatorVars, cacheVars, extractVars>>

ReturnClean ==
    /\ normalizer.pc = "called"
    /\ normalizer' = [pc |-> "returned", value_str |-> normalizer.value_str,
                      result |-> _clean_numeric_value(normalizer.value_str)]
    /\ UNCHANGED <<consolidatorVars, cacheVars, extractVars>>

NextNormalizer ==
    \/ CallClean
    \/ ReturnClean

SpecNormalizer == InitDoc /\ [][NextNormalizer]_vars

(***************************************************************************)
(* The batch (extract_data_from_multiple_reports, lines 1536-1622).        *)
(***************************************************************************)
MaxDocs == 2

Doc(file, readable, content, faulty) ==
    [ file |-> file, readable |-> readable, title |-> None,
      content |-> content, faulty |-> faulty ]

\* The documents a folder of the batch may hold, at most one for a name.
BatchDocuments ==
    { Doc(File_19_20, TRUE,  "full", {}),
      Doc(File_19_20, TRUE,  "full", {"total_revenue"}),
      Doc(File_19_20, TRUE,  "bare", {"gross_profit", "top_shareholders"}),
      Doc(File_19_20, FALSE, "bare", {}),
      Doc(File_20_21, TRUE,  "bare", {}),
      Doc(File_20_21, TRUE,  "full", ScanResolvers),
      Doc(File_23_24, TRUE,  "bare", {}),
      Doc(File_23_24, FALSE, "bare", {}),
      Doc(File_2021,  TRUE,  "full", {"earnings_per_share"}),
      Doc(File_plain, FALSE, "bare", {}) }

\* os.listdir: the documents of the folder in some order.
Folders ==
    { f \in UNION { [1..n -> BatchDocuments] : n \in 0..MaxDocs } :
        \A i, j \in 1..Len(f) : i # j => f[i].file # f[j].file }

\* output_folder: not given, given, or given where nothing can be written.
OutputFolders == {"none", "writable", "unwritable"}

\* all_raw_data[year] = data, for a dict kept in insertion order.
DictPut(d, key, value) ==
    IF \E i \in 1..Len(d) : d[i].year = key
    THEN [ i \in 1..Len(d) |-> IF d[i].year = key THEN [year |-> key, data |-> value]
                                                 ELSE d[i] ]
    ELSE Append(d, [year |-> key, data |-> value])

\* Lines 1547-1552.
StartBatch ==
    /\ batch.pc = "idle"
    /\ extractor.pc = "idle"
    /\ \E files \in Folders, out \in OutputFolders, now \in ClockYears :
          batch' = [ pc |-> "loop", files |-> files, i |-> 1, output |-> out,
                     now |-> now, all_raw_data |-> <<>>, log |-> <<>>,
                     seen |-> <<>>, exported |-> FALSE, json |-> None ]
    /\ UNCHANGED <<consolidatorVars, cacheVars, chain, extractor, normalizer>>

\* Line 1559: the constructor, for the next file of the folder.
OpenDocument ==
    /\ batch.pc = "loop"
    /\ batch.i <= Len(batch.files)
    /\ extractor.pc = "idle"
    /\ extractor' = NewExtractor(batch.files[batch.i], batch.now)
    /\ UNCHANGED <<consolidatorVars, cacheVars, chain, batch, normalizer>>

\* Lines 1562-1572, once extract_all_metrics has returned: the CSV files of
\* the document, then its entry; an exception of the writes is logged and
\* the document has no entry.  seen keeps, for each document in turn, what
\* the loop did with it.
store_document(b, x) ==
    IF b.output = "unwritable"
    THEN [ b EXCEPT !.i = @ + 1,
                    !.log = Append(@, x.doc.file),
                    !.seen = Append(@, [doc |-> x.doc, errors |-> x.errors,
                                        stored |-> FALSE]) ]
    ELSE [ b EXCEPT !.i = @ + 1,
                    !.all_raw_data = DictPut(@, x.year, x.data),
                    !.seen = Append(@, [doc |-> x.doc, errors |-> x.errors,
                                        stored |-> TRUE]) ]

StoreDocument ==
    /\ batch.pc = "loop"
    /\ extractor.pc = "returned"
    /\ batch' = store_document(batch, extractor)
    /\ extractor' = [pc |-> "idle"]
    /\ UNCHANGED <<consolidatorVars, cacheVars, chain, normalizer>>

\* ord(c) of the characters of a period token.
CharCode(c) == IF c = "-" THEN 45 ELSE 48 + DigitVal(c)

\* a < b, for Python strings.
RECURSIVE StrLess(_, _)
StrLess(a, b) ==
    IF b = <<>> THEN FALSE
    ELSE IF a = <<>> THEN TRUE
    ELSE IF a[1] # b[1] THEN CharCode(a[1]) < CharCode(b[1])
    ELSE StrLess(Tail(a), Tail(b))

\* sorted(raw_data.keys()), lines 1641 and 1647.
sorted_keys(raw_data) ==
    LET keys == { raw_data[i].year : i \in 1..Len(raw_data) }
    IN  CHOOSE s \in [1..Len(raw_data) -> keys] :
           /\ Range(s) = keys
           /\ \A i, j \in 1..Len(s) : i < j => StrLess(s[i], s[j])

\* Lines 1624-1723: what consolidated_financial_data.json holds.
export_data_to_json(raw_data) ==
    LET years == sorted_keys(raw_data)
        data_of(year) == raw_data[CHOOSE i \in 1..Len(raw_data) : raw_data[i].year = year].data
    IN  [ total_years    |-> Len(raw_data),
          years_covered  |-> years,
          financial_data |-> [ i \in 1..Len(years) |->
                                 [year |-> years[i], data |-> data_of(years[i])] ] ]

\* Lines 1574-1622: the consolidated files are written for two periods or
\* more, and the entries are returned.
FinishBatch ==
    /\ batch.pc = "loop"
    /\ batch.i = Len(batch.files) + 1
    /\ extractor.pc = "idle"
    /\ batch' = [ batch EXCEPT !.pc = "done",
                               !.exported = batch.output = "writable"
                                            /\ Len(batch.all_raw_data) > 1,
                               !.json = IF batch.output = "writable"
                                           /\ Len(batch.all_raw_data) > 1
                                        THEN Some(export_data_to_json(batch.all_raw_data))
                                        ELSE None ]
    /\ UNCHANGED <<consolidatorVars, cacheVars, chain, extractor, normalizer>>

InitBatch ==
    /\ IdleConsolidator
    /\ IdleCache
    /\ IdleExtract

NextBatch ==
    \/ StartBatch
    \/ OpenDocument
    \/ ExtractAllMetrics
    \/ StoreDocument
    \/ FinishBatch

SpecBatch == InitBatch /\ [][NextBatch]_vars

(***************************************************************************)
(* The table extraction chain (_extract_tables_from_page, lines 1223-1294) *)
(* for one keyword.  A backend call raises, finds no table ("zero") or     *)
(* finds tables; on a file that cannot be read every call raises.          *)
(***************************************************************************)
MaxPages   == 2     \* pages of a document that hold the keyword
MaxGuessed == 2     \* pages of the guessed list that are walked

BackendOutcomes == {"raise", "zero", "tables"}

\* The pages whose text holds the keyword, in page order (lines 1241-1244).
MatchingPages ==
    { <<>> } \cup { [i \in 1..n |-> i] : n \in 1..MaxPages }
             \cup { [i \in 1..n |-> i + 1] : n \in 1..(MaxPages - 1) }

\* Lines 1296-1352: the pages of the financial statements, range(180, 190),
\* cut to the first MaxGuessed of them.
_guess_pages_for_keyword == [i \in 1..MaxGuessed |-> 179 + i]

CallOf(page, flavor, outcome) == [page |-> page, flavor |-> flavor, outcome |-> outcome]

\* page_try that calls the stream backend whatever the lattice call gave.
page_try_both(c, page, o1, o2) ==
    LET first  == IF c.lattice THEN <<CallOf(page, "lattice", o1)>> ELSE <<>>
        second == IF c.lattice /\ o1 = "raise" THEN <<>>
                  ELSE <<CallOf(page, "stream", o2)>>
        made   == first \o second
    IN  [ c EXCEPT !.k = @ + 1,
                   !.calls = @ \o made,
                   !.tables = @ \o SelectSeq(made, LAMBDA m : m.outcome = "tables"),
                   !.warnings = @ \o SelectSeq(made, LAMBDA m : m.outcome = "raise") ]

\* Lines 1250-1267 and 1278-1292: the try around the calls on one page.  An
\* exception of either call ends the work on the page with a warning.
page_try(c, page, o1, o2) ==
    LET first  == IF c.lattice THEN <<CallOf(page, "lattice", o1)>> ELSE <<>>
        second == IF c.lattice /\ o1 # "zero" THEN <<>>
                  ELSE <<CallOf(page, "stream", o2)>>
        made   == first \o second
    IN  [ c EXCEPT !.k = @ + 1,
                   !.calls = @ \o made,
                   !.tables = @ \o SelectSeq(made, LAMBDA m : m.outcome = "tables"),
                   !.warnings = @ \o SelectSeq(made, LAMBDA m : m.outcome = "raise") ]

\* What the backend may answer for the document.
Answers(c) == IF c.readable THEN BackendOutcomes ELSE {"raise"}

\* Lines 1234-1247: PdfReader and the keyword search.  If they raise, the
\* error is logged and no page matches.
LocatePages ==
    /\ chain.pc = "idle"
    /\ \E lattice \in BOOLEAN, readable \in BOOLEAN, pages \in MatchingPages :
          chain' = [ pc |-> "matching", lattice |-> lattice, readable |-> readable,
                     pages |-> IF readable THEN pages ELSE <<>>,
                     k |-> 1, calls |-> <<>>, tables |-> <<>>, warnings |-> <<>>,
                     located |-> readable ]
    /\ UNCHANGED <<consolidatorVars, cacheVars, extractor, batch, normalizer>>

\* Lines 1249-1267: one matching page.
MatchingPage ==
    /\ chain.pc = "matching"
    /\ chain.k <= Len(chain.pages)
    /\ \E o1 \in Answers(chain), o2 \in Answers(chain) :
          chain' = page_try(chain, chain.pages[chain.k], o1, o2)
    /\ UNCHANGED <<consolidatorVars, cacheVars, extractor, batch, normalizer>>

\* Lines 1271-1276: with no table so far the guessed pages are walked.
AfterMatching ==
    /\ chain.pc = "matching"
    /\ chain.k = Len(chain.pages) + 1
    /\ chain' = IF chain.tables = <<>>
                THEN [ chain EXCEPT !.pc = "guessed",
                                    !.pages = _guess_pages_for_keyword, !.k = 1 ]
                ELSE [ chain EXCEPT !.pc = "returned" ]
    /\ UNCHANGED <<consolidatorVars, cacheVars, extractor, batch, normalizer>>

\* Lines 1277-1292: one guessed page.
GuessedPage ==
    /\ chain.pc = "guessed"
    /\ chain.k <= Len(chain.pages)
    /\ \E o1 \in Answers(chain), o2 \in Answers(chain) :
          chain' = page_try(chain, chain.pages[chain.k], o1, o2)
    /\ UNCHANGED <<consolidatorVars, cacheVars, extractor, batch, normalizer>>

\* Line 1294: return tables.
ReturnTables ==
    /\ chain.pc = "guessed"
    /\ chain.k = Len(chain.pages) + 1
    /\ chain' = [ chain EXCEPT !.pc = "returned" ]
    /\ UNCHANGED <<consolidatorVars, cacheVars, extractor, batch, normalizer>>

InitChain ==
    /\ IdleConsolidator
    /\ IdleCache
    /\ IdleExtract

NextChain ==
    \/ LocatePages
    \/ MatchingPage
    \/ AfterMatching
    \/ GuessedPage
    \/ ReturnTables

SpecChain == InitChain /\ [][NextChain]_vars

(***************************************************************************)
(* Claims about the consolidator, checked under SpecT.                     *)
(***************************************************************************)
\* The boundary years of the period keys, written out: what "2019-2020"
\* stands for, independently of how the code takes the key apart.
StartYear(k) ==
    CASE k = Key_2019_2020 -> 2019
      [] k = Key_2020_2021 -> 2020
      [] k = Key_2021_2021 -> 2021
      [] k = Key_19_20     -> 19

EndYear(k) ==
    CASE k = Key_2019_2020 -> 2020
      [] k = Key_2020_2021 -> 2021
      [] k = Key_2021_2021 -> 2021
      [] k = Key_19_20     -> 20

BoundaryYears(entries) ==
    UNION {{StartYear(entries[i].period), EndYear(entries[i].period)} :
             i \in 1..Len(entries)}

YearsOf(yearlyData) == [i \in 1..Len(yearlyData) |-> yearlyData[i].year]

TransformDone == transformed # NotRun /\ transformed # Raised

\* Two periods of the dataset expand to a common display year.
SharedYear ==
    \E i, j \in 1..Len(consolidated_data) :
        /\ i < j
        /\ Key_2019 \notin {consolidated_data[i].period, consolidated_data[j].period}
        /\ {StartYear(consolidated_data[i].period), EndYear(consolidated_data[i].period)}
             \cap {StartYear(consolidated_data[j].period),
                   EndYear(consolidated_data[j].period)} # {}

FirstPeriodOf(y) ==
    LET has(i) == y \in {StartYear(consolidated_data[i].period),
                         EndYear(consolidated_data[i].period)}
    IN  CHOOSE i \in 1..Len(consolidated_data) :
            has(i) /\ \A k \in 1..(i - 1) : ~has(k)

IsAscending(s) == \A i \in 1..(Len(s) - 1) : s[i] < s[i + 1]

LoadCalled == last_call.op \in {"load", "raw"}

\* The dataset the sources of a call stand for: the transform of the JSON
\* file where there is one that can be read and transformed, else what the
\* CSV files give.
SourceDataset(file, dir) ==
    IF file.exists /\ file.readable /\ transform_consolidated_data(file.content) # Raised
    THEN transform_consolidated_data(file.content)
    ELSE csv_dataset(dir)

\* The parts of the lifecycle that hold of every load, returned or raised.
CacheLifecycleCommon ==
    \* empty at startup
    /\ last_call.op = "none" => data_cache = EmptyCache
    \* a later load returns the cached dataset and does not go to the source
    /\ (LoadCalled /\ last_call.hit) =>
          /\ ~last_call.read
          /\ last_call.outcome = "returned"
          /\ data_cache.all_data = Some(last_call.result)
    \* only clear_cache empties it: a cache without the dataset is the cache
    \* at startup, after a clear, or after a load that found it empty and
    \* stored nothing
    /\ data_cache.all_data = None =>
          \/ last_call.op \in {"none", "clear"}
          \/ LoadCalled /\ ~last_call.hit /\ last_call.outcome = "raised"
    /\ last_call.op = "clear" => data_cache = EmptyCache
    \* a load on an empty cache, the first after a clear included, goes to
    \* the source and gives the dataset of the source as it is then
    /\ (LoadCalled /\ ~last_call.hit) =>
          /\ last_call.read
          /\ last_call.result = SourceDataset(last_call.file, last_call.dir)

\* C9 as stated: ... the first load_all_financial_data populates the cache ...
C9_LifecycleAsStated ==
    /\ CacheLifecycleCommon
    /\ LoadCalled => data_cache.all_data # None

\* C9, amended: the cache is empty at startup; the first load that returns
\* a dataset populates it with that dataset (a load that raises leaves it
\* empty); every later load returns the cached dataset without reading the
\* source again; only clear_cache empties it; and the first load after a
\* clear rebuilds the dataset from the source.
C9_Lifecycle ==
    /\ CacheLifecycleCommon
    /\ (LoadCalled /\ last_call.outcome = "returned") =>
          data_cache.all_data = Some(last_call.result)
    /\ (LoadCalled /\ last_call.outcome = "raised") =>
          data_cache = EmptyCache

\* A load that rebuilds after a clear of a populated cache, from a source
\* that is not the one the cleared dataset came from.
C9_Witness ==
    /\ last_call.op = "load"
    /\ last_call.prev = "clear"
    /\ ~last_call.hit
    /\ last_call.read
    /\ last_call.outcome = "returned"
    /\ data_cache.all_data = Some(last_call.result)
    /\ Len(last_call.result.yearlyData) = 3

\* C10: whenever the cache holds 'all_data' it also holds 'raw_json_data',
\* so that after any successful load the raw-data read returns the raw data
\* and not the 404.
C10_RawWheneverAllData ==
    /\ data_cache.all_data # None => data_cache.raw_json_data # None
    /\ (last_call.op = "raw" /\ last_call.outcome = "returned") =>
          last_call.status = 200

(***************************************************************************)
(* Claims about the extractor                                              *)
(***************************************************************************)
RequiredKeys == Range(Resolvers)

Returned == extractor.pc = "returned"

\* C5 (as stated): after extract_all_metrics returns, the record holds a
\* value for every required key, whatever each resolver found, failed to
\* find, or raised.
C5_EveryRequiredKey ==
    Returned => \A key \in RequiredKeys : extractor.data[key] # None

\* C6 (as stated): in _extract_tables_from_page every backend call is
\* isolated on its own: a lattice call that raises is followed by the stream
\* call on the same page, every page of the walk is still visited, and the
\* exception ends as a warning, never as a failure of the chain.
C6_EachCallIsolated ==
    /\ \A i \in 1..Len(IF chain.pc = "idle" THEN <<>> ELSE chain.calls) :
          (chain.calls[i].flavor = "lattice" /\ chain.calls[i].outcome = "raise")
             => /\ i < Len(chain.calls)
                /\ chain.calls[i + 1].page = chain.calls[i].page
                /\ chain.calls[i + 1].flavor = "stream"
    /\ chain.pc = "returned" =>
          /\ chain.k = Len(chain.pages) + 1
          /\ \A j \in 1..Len(chain.pages) :
                \E i \in 1..Len(chain.calls) : chain.calls[i].page = chain.pages[j]
          /\ \A i \in 1..Len(chain.calls) :
                chain.calls[i].outcome = "raise" => chain.calls[i] \in Range(chain.warnings)

IsPrefixOfResolvers(ran) ==
    Len(ran) <= Len(Resolvers) /\ ran = SubSeq(Resolvers, 1, Len(ran))

\* C7: an exception of one resolver is caught in extract_all_metrics: the
\* resolvers run in the fixed order with none left out after a raise, the
\* method returns the record, which holds the value of every resolver that
\* did not raise, and the batch goes on: every document of the folder is
\* extracted and a document whose resolvers raised is stored like any other.
C7_RaiseIsContained ==
    /\ extractor.pc # "idle" =>
          /\ IsPrefixOfResolvers(extractor.ran)
          /\ Range(extractor.errors) \subseteq Range(extractor.ran)
          /\ \A key \in Range(extractor.ran) :
                (extractor.data[key] = None) <=> (key \in Range(extractor.errors))
    /\ Returned => extractor.ran = Resolvers
    /\ batch.pc = "done" =>
          /\ Len(batch.seen) = Len(batch.files)
          /\ \A i \in 1..Len(batch.seen) :
                /\ batch.seen[i].doc = batch.files[i]
                /\ batch.seen[i].stored = (batch.output # "unwritable")

\* C7 happens: the first of two documents had its revenue resolver raise,
\* both documents are stored.
C7_Witness ==
    /\ batch.pc = "done"
    /\ Len(batch.seen) = 2
    /\ batch.seen[1].errors = <<"total_revenue">>
    /\ batch.seen[1].stored
    /\ batch.seen[2].stored
    /\ Len(batch.all_raw_data) = 2

\* C8 (as stated): a document whose file cannot be read is given up: the
\* batch logs the failure, records no entry for it, and still processes
\* every other document of the folder.
C8_UnreadableIsSkipped ==
    batch.pc = "done" =>
        /\ Len(batch.seen) = Len(batch.files)
        /\ \A i \in 1..Len(batch.seen) :
              ~batch.seen[i].doc.readable =>
                  /\ ~batch.seen[i].stored
                  /\ batch.seen[i].doc.file \in Range(batch.log)

(***************************************************************************)
(* Claims about requests served at the same time                           *)
(***************************************************************************)
SingleLoad == load_all_financial_data(EmptyCache, json_file, csv_dir)

BothDone == \A t \in Readers : readers[t].pc = "done"

\* C11: two first readers that run load_all_financial_data at the same
\* time on an empty cache and an unchanged source receive equal datasets
\* (or both see the loader raise) and leave the cache as one load alone
\* leaves it, under every interleaving of their steps.
C11_ConcurrentLoadsAgree ==
    (readers # <<>> /\ BothDone) =>
        /\ \A t \in Readers :
              /\ readers[t].outcome = SingleLoad.outcome
              /\ readers[t].outcome = "returned" => readers[t].result = SingleLoad.result
        /\ data_cache = SingleLoad.cache

\* C11 happens: both requests went past the cache check, both read the
\* source and both stored the dataset of three years.
C11_Witness ==
    /\ readers # <<>>
    /\ BothDone
    /\ \A t \in Readers : readers[t].read /\ readers[t].outcome = "returned"
    /\ data_cache.all_data # None
    /\ data_cache.raw_json_data # None
    /\ Len(data_cache.all_data[1].yearlyData) = 3

(***************************************************************************)
(* Claims about the shareholders resolver                                  *)
(***************************************************************************)
HasPage == extractor.pc # "idle" /\ "page" \in DOMAIN extractor.doc

\* The resolver has run on a document with a shareholders page and stored.
HoldersStored ==
    /\ HasPage
    /\ extractor.step > Len(Resolvers)
    /\ extractor.data.top_shareholders # None

StoredList == extractor.data.top_shareholders[1]

Is_23_24 == is_23_24(extractor.doc, extractor.year)

\* C12 (as stated): for the 2023-24 report the stored list is the fixed
\* dataset, whatever the tables of the document hold.
C12_OverrideWins ==
    (HoldersStored /\ Is_23_24) => StoredList = hard_coded_shareholders

\* One of the extractions of the 2023-24 case gives a list for the page.
SpecialExtractionGives(page) ==
    /\ "page" \in page.sees
    /\ \E i \in 1..Len(page.tables) : page.tables[i].title = "top20"
    /\ \/ "tabula" \in page.sees
          /\ \E i \in 1..Len(page.tables) : from_tabula(page.tables[i]) # None
       \/ page.sees \cap {"lattice", "stream"} # {}
          /\ \E i \in 1..Len(page.tables) : from_camelot_grid(page.tables[i]) # None
       \/ from_page_text(shareholders_section(page.tables, FALSE)) # None

RowNames(page) ==
    UNION { { page.tables[i].rows[k].name : k \in 1..Len(page.tables[i].rows) } :
            i \in 1..Len(page.tables) }

\* C12, amended: for the 2023-24 report the generic passes never run (the
\* placeholder is never stored); the fixed dataset is the last resort: it is
\* stored exactly when none of tabula, the camelot grid and the page text
\* gives a list of the page, and a list that is not the fixed dataset is
\* made of rows of the document.
C12_HardCodedIsLastResort ==
    (HoldersStored /\ Is_23_24) =>
        /\ StoredList # placeholder_shareholders
        /\ (StoredList = hard_coded_shareholders)
              <=> ~SpecialExtractionGives(extractor.doc.page)
        /\ StoredList # hard_coded_shareholders =>
              \A k \in 1..Len(StoredList) :
                  StoredList[k].name \in RowNames(extractor.doc.page)

\* C12 happens: the 2023-24 report with a list of twenty on its page, which
\* is stored in place of the fixed dataset.
C12_Witness ==
    /\ HoldersStored
    /\ Is_23_24
    /\ extractor.doc.page.tables = <<G20>>
    /\ StoredList # hard_coded_shareholders
    /\ Len(StoredList) = 20

DecoyNames ==
    UNION { { t.rows[k].name : k \in 1..Len(t.rows) } : t \in DecoyTables }

\* C13 (as stated): with a distribution table and a genuine table of twenty
\* rows on the page, in either order, no row of the distribution table is
\* in the stored list, for every document and every path.
C13_DecoyNeverReturned ==
    ( /\ HoldersStored
      /\ \E i \in 1..Len(extractor.doc.page.tables) :
            extractor.doc.page.tables[i] \in DecoyTables
      /\ \E i \in 1..Len(extractor.doc.page.tables) :
            extractor.doc.page.tables[i] = G20 )
    => \A k \in 1..Len(StoredList) : StoredList[k].name \notin DecoyNames

IsDescending(list) ==
    \A i \in 1..(Len(list) - 1) : list[i].percentage >= list[i + 1].percentage

\* C14: a list taken from a table or from the page text has at least 5
\* pairs, each of a name that is no header and a percentage in (0, 100);
\* every stored list is in descending order of percentage, has at most 20
\* entries and no name twice.
C14_AtLeastFiveSortedCapped ==
    HoldersStored =>
        /\ IsDescending(StoredList)
        /\ Len(StoredList) <= 20
        /\ \A i, j \in 1..Len(StoredList) :
              i # j => StoredList[i].name # StoredList[j].name
        /\ StoredList \notin {hard_coded_shareholders, placeholder_shareholders} =>
              /\ Len(StoredList) >= 5
              /\ \A k \in 1..Len(StoredList) :
                    /\ ~IsHeaderName(StoredList[k].name)
                    /\ 0 < StoredList[k].percentage
                    /\ StoredList[k].percentage < 10000

\* C14 happens: a table of 22 rows in ascending order is stored as its 20
\* greatest rows, greatest first.
C14_Witness ==
    /\ HoldersStored
    /\ extractor.doc.page.tables = <<G22>>
    /\ Len(StoredList) = 20
    /\ StoredList[1].name = HolderNames[22]
    /\ StoredList[20].name = HolderNames[3]

\* C15: every stored percentage lies strictly between 0 and 100, whatever
\* path the list comes from.
C15_PercentagesInRange ==
    HoldersStored =>
        \A k \in 1..Len(StoredList) :
            0 < StoredList[k].percentage /\ StoredList[k].percentage < 10000

\* C15 happens: of a table with the percentages 0 and 100 in two of its
\* seven rows the five other rows are stored.
C15_Witness ==
    /\ HoldersStored
    /\ extractor.doc.page.tables = <<G7x>>
    /\ Len(StoredList) = 5
    /\ \A k \in 1..5 : StoredList[k].name \notin {HolderNames[1], HolderNames[2]}

(***************************************************************************)
(* Claims about the money resolvers                                        *)
(***************************************************************************)
HasStatement == extractor.pc # "idle" /\ "statement" \in DOMAIN extractor.doc

\* C16 (as stated): the gross_profit_margin of a record lies strictly between
\* 0 and 100, whatever the revenue, the cost of sales and the gross profit
\* of the record.
C16_MarginInRange ==
    (HasStatement /\ extractor.data.gross_profit_margin # None) =>
        /\ 0 < extractor.data.gross_profit_margin[1]
        /\ extractor.data.gross_profit_margin[1] < 10000

\* C17: the gross profit is the value of the table scans if they accept a
\* cell; else the revenue less the cost of sales if the record holds both;
\* else the placeholder of the year.
C17_GrossProfitPriority ==
    (HasStatement /\ extractor.data.gross_profit # None) =>
        LET data  == extractor.data
            table == table_value(extractor.doc, "gross_profit")
        IN  IF table # None
            THEN data.gross_profit = table
            ELSE IF data.total_revenue # None /\ data.cost_of_sales # None
            THEN data.gross_profit =
                    Some(data.total_revenue[1] - data.cost_of_sales[1])
            ELSE data.gross_profit = Some(gross_profit_placeholder(extractor.year))

\* C17 happens: the row of the gross profit has no cell above the threshold,
\* the revenue and the cost of sales come from their rows, and the
\* difference is stored.
C17_Witness ==
    /\ HasStatement
    /\ extractor.doc.statement.gross_profit = RowOtherSmall
    /\ extractor.doc.statement.total_revenue = RowValue
    /\ extractor.doc.statement.cost_of_sales = RowBlankThenValue
    /\ extractor.data.gross_profit = Some(40000)

MoneyMetrics == {"total_revenue", "cost_of_sales", "gross_profit"}

\* C18 (as stated): a value that a money resolver takes from a table cell is
\* greater than 1,000,000 (1000 thousands), on the 'Income Statement' page
\* and on the pages of the other headings.
C18_AcceptedCellsAboveThreshold ==
    \A metric \in MoneyMetrics :
        ( /\ HasStatement
          /\ extractor.data[metric] # None
          /\ table_value(extractor.doc, metric) # None )
        => extractor.data[metric][1] > 1000

(***************************************************************************)
(* Claims about the fiscal period                                          *)
(***************************************************************************)
\* C19 (as stated): two runs on the same document store the same placeholder:
\* the revenue placeholder of a run on a document without tables is the one
\* of a run on that document at any other time.
C19_SamePlaceholderTwice ==
    ( /\ extractor.pc # "idle"
      /\ DOMAIN extractor.doc \cap {"statement", "page"} = {}
      /\ extractor.doc.content = "bare"
      /\ extractor.data.total_revenue # None )
    => \A now \in ClockYears :
          extractor.data.total_revenue =
              Some(revenue_placeholder(_extract_year_from_filename(extractor.doc, now)))

\* C20 (as stated): the period keys '2019-2020' and '19-20' both surface
\* under the display years 2019 and 2020.
C20_TokenExpansion ==
    ( /\ TransformDone
      /\ \E i \in 1..Len(consolidated_data) :
            consolidated_data[i].period \in {Key_2019_2020, Key_19_20} )
    => {2019, 2020} \subseteq Range(YearsOf(transformed.yearlyData))

(***************************************************************************)
(* Claims about _clean_numeric_value                                       *)
(***************************************************************************)
Cleaned == normalizer.pc = "returned"

HasDigit(text) == \E i \in 1..Len(text) : IsDigit(text[i])

Symbols == {",", " ", "n", "a", "L", "K", "R", "s"}

\* C24: _clean_numeric_value raises on no text (float() is only given a text
\* it can read); a text with no digit, the empty text included, gives None
\* and a text with a digit gives a number, 0 for "0"; a text in parentheses
\* gives the negated number of the text within; symbols, spaces and
\* thousands separators change nothing.
C24_NormalizerIsTotal ==
    Cleaned =>
        LET text   == normalizer.value_str
            result == normalizer.result
            inner  == SubSeq(text, 2, Len(text) - 1)
        IN  /\ ~result.raised
            /\ number_match(numeric_chars(Without(text, {"(", ")"}))) # None =>
                  PyFloat(number_match(numeric_chars(Without(text, {"(", ")"})))[1]) # None
            /\ ~HasDigit(text) => result.value = None
            /\ HasDigit(text) => result.value # None
            /\ text = <<"0">> => result.value = Some([num |-> 0, scale |-> 0])
            /\ ( /\ Len(text) >= 2
                 /\ text[1] = "(" /\ text[Len(text)] = ")"
                 /\ \A i \in 1..Len(inner) : inner[i] \notin {"(", ")"}
                 /\ HasDigit(inner) )
               => result.value = Some(Negated(_clean_numeric_value(inner).value[1]))
            /\ ( text # Text_nan /\ Without(text, Symbols) # Text_nan )
               => result = _clean_numeric_value(Without(text, Symbols))

\* C24 happens: "(1,234.50)" gives -1234.5.
C24_Witness ==
    /\ Cleaned
    /\ normalizer.value_str = Text_parenthesised
    /\ normalizer.result.value = Some([num |-> 0 - 12345, scale |-> 1])

(***************************************************************************)
(* Claims about the rights-issue resolver                                  *)
(***************************************************************************)
\* The resolver has run on a document of one rights-issue table.
OneRightsTable ==
    /\ extractor.pc # "idle"
    /\ "rights" \in DOMAIN extractor.doc
    /\ Len(extractor.doc.rights) = 1
    /\ extractor.data.right_issues # None

RightsTable == extractor.doc.rights[1]

StoredRights == extractor.data.right_issues[1]

\* A text 'N:M' of digits.
IsRatio(cell) ==
    \E i \in 2..(Len(cell) - 1) :
        /\ cell[i] = ":"
        /\ \A j \in 1..Len(cell) : j # i => IsDigit(cell[j])

\* The rows that name an attribute and hold a value of it.
RatioRows == { i \in 1..Len(RightsTable) :
                 /\ Contains(RightsTable[i][1], Text_ratio)
                 /\ \E j \in 2..Len(RightsTable[i]) : IsRatio(RightsTable[i][j]) }

PriceRows == { i \in 1..Len(RightsTable) :
                 /\ Contains(RightsTable[i][1], Text_price)
                 /\ \E j \in 2..Len(RightsTable[i]) : AllDigits(RightsTable[i][j]) }

DateRows  == { i \in 1..Len(RightsTable) :
                 /\ Contains(RightsTable[i][1], Text_date)
                 /\ \E j \in 2..Len(RightsTable[i]) : is_date(RightsTable[i][j]) }

\* C21 (as stated): the record has its three attributes; each attribute that
\* a row of the table names and holds is kept, whatever the other rows
\* hold, and an attribute of no row is 'N/A'.
C21_EachAttributeIndependently ==
    OneRightsTable =>
        /\ DOMAIN StoredRights = {"ratio", "issue_price", "date"}
        /\ RatioRows # {} => StoredRights.ratio # Text_NA
        /\ DateRows # {} => StoredRights.date # Text_NA
        /\ RatioRows = {} => StoredRights.ratio = Text_NA
        /\ DateRows = {} => StoredRights.date = Text_NA
        /\ PriceRows = {} => StoredRights.issue_price = None

\* C22 (as stated): of a table with one row of a ratio 'N:M' and one row of
\* a price, exactly that ratio text and exactly that price are stored; here
\* for the prices below 1000 only, which pass the test of line 562.
C22_ExactRatioAndPrice ==
    ( /\ OneRightsTable
      /\ Cardinality(RatioRows) = 1
      /\ Cardinality(PriceRows) = 1
      /\ \A i \in PriceRows : DigitsValue(RightsTable[i][2]) < 1000 )
    => LET r == CHOOSE i \in RatioRows : TRUE
           q == CHOOSE i \in PriceRows : TRUE
       IN  /\ StoredRights.ratio = RightsTable[r][2]
           /\ StoredRights.issue_price = Some(100 * DigitsValue(RightsTable[q][2]))

(***************************************************************************)
(* Claims about the rights issues of the dataset                           *)
(***************************************************************************)
\* C23 (as stated): the rightIssues of the dataset that a load leaves in the
\* cache never hold a (year, ratio) pair twice, and none of them is the
\* entry of a period without a ratio ('N/A', read back from a CSV file as
\* NaN).
C23_NoDuplicateRightIssue ==
    data_cache.all_data # None =>
        LET rightIssues == data_cache.all_data[1].rightIssues
        IN  /\ \A i, j \in 1..Len(rightIssues) :
                  ( /\ rightIssues[i].year = rightIssues[j].year
                    /\ rightIssues[i].ratio = rightIssues[j].ratio ) => i = j
            /\ \A i \in 1..Len(rightIssues) : rightIssues[i].ratio \notin {"N/A", "nan"}

(***************************************************************************)
(* Claims about the fallback of the loader                                 *)
(***************************************************************************)
\* The last request went past the cache check and the JSON file of that
\* moment was missing, unreadable, or made the transform raise.
JsonFailed ==
    /\ last_call.op \in {"load", "raw"}
    /\ last_call.read
    /\ \/ ~last_call.file.exists
       \/ ~last_call.file.readable
       \/ transform_consolidated_data(last_call.file.content) = Raised

\* C25: a load that finds no JSON file, or whose reading or transform of it
\* raises, calls load_from_csv_files once and ends as that call ends: it
\* returns the dataset of the CSV files, and it raises only if that call
\* raises.
C25_FallbackToCsv ==
    JsonFailed =>
        /\ last_call.csv_calls = 1
        /\ last_call.outcome = load_from_csv_files(EmptyCache, last_call.dir).outcome
        /\ last_call.result = load_from_csv_files(EmptyCache, last_call.dir).result

\* C25 happens: the transform of the JSON file raises (a period key without
\* an end year) and the dataset of the CSV files is returned.
C25_Witness ==
    /\ JsonFailed
    /\ last_call.file.readable
    /\ last_call.dir.files = <<E_2020_2021, E_2019_2020>>
    /\ last_call.outcome = "returned"
    /\ Len(last_call.result.yearlyData) = 3

(***************************************************************************)
(* Claims about the order of the backend calls                             *)
(***************************************************************************)
ChainRuns == chain.pc # "idle"

IsGuessed(page) == \E i \in 1..Len(_guess_pages_for_keyword) :
                       _guess_pages_for_keyword[i] = page

\* C26: with lattice requested the first call on a page is the lattice call
\* and the stream call is made on the page exactly when the lattice call
\* gave zero tables; with lattice not requested every call is a stream call,
\* one per page; a guessed page is called only when no call on a keyword
\* page gave a table.
C26_LatticeThenStream ==
    ChainRuns =>
        LET calls == chain.calls
        IN  /\ \A i \in 1..Len(calls) :
                  /\ ~chain.lattice => calls[i].flavor = "stream"
                  /\ (~chain.lattice /\ i > 1) => calls[i - 1].page # calls[i].page
                  /\ (chain.lattice /\ (i = 1 \/ calls[i - 1].page # calls[i].page))
                        => calls[i].flavor = "lattice"
                  /\ (chain.lattice /\ calls[i].flavor = "stream") =>
                        /\ i > 1
                        /\ calls[i - 1] = CallOf(calls[i].page, "lattice", "zero")
                  /\ (calls[i].flavor = "lattice" /\ calls[i].outcome = "zero") =>
                        /\ i < Len(calls)
                        /\ calls[i + 1].page = calls[i].page
                        /\ calls[i + 1].flavor = "stream"
                  /\ IsGuessed(calls[i].page) =>
                        \A j \in 1..(i - 1) :
                            ~IsGuessed(calls[j].page) => calls[j].outcome # "tables"
            /\ chain.pc = "guessed" =>
                  \A j \in 1..Len(calls) :
                      ~IsGuessed(calls[j].page) => calls[j].outcome # "tables"

\* C26 happens: on a keyword page lattice gives zero tables and stream is
\* called; no keyword page gives a table, and on the first guessed page the
\* lattice call gives tables and no stream call follows.
C26_Witness ==
    /\ chain.pc = "returned"
    /\ chain.lattice
    /\ chain.calls = << CallOf(1, "lattice", "zero"), CallOf(1, "stream", "zero"),
                        CallOf(180, "lattice", "tables"),
                        CallOf(181, "lattice", "zero"), CallOf(181, "stream", "tables") >>

(***************************************************************************)
(* Claims about the shareholders of a shared display year                  *)
(***************************************************************************)
\* The periods, in the order of financial_data, that have year y as a
\* boundary year and come with a shareholder list.
PeriodsWithShareholders(y) ==
    { i \in 1..Len(consolidated_data) :
        /\ y \in {StartYear(consolidated_data[i].period),
                  EndYear(consolidated_data[i].period)}
        /\ consolidated_data[i].data.top_shareholders # None }

StoredPeriods == { batch.all_raw_data[i].year : i \in 1..Len(batch.all_raw_data) }

\* What C29 says of a written file: one financial_data entry for each
\* distinct period of the batch, and years_covered in ascending order.
WrittenAsStated(json) ==
    /\ { json.financial_data[i].year : i \in 1..Len(json.financial_data) } = StoredPeriods
    /\ Len(json.financial_data) = Cardinality(StoredPeriods)
    /\ Range(json.years_covered) = StoredPeriods
    /\ \A i, j \in 1..Len(json.years_covered) :
          i < j => StrLess(json.years_covered[i], json.years_covered[j])

\* C29 (as stated): with an output folder given, a batch of which at least
\* one document was processed successfully writes
\* consolidated_financial_data.json, with one financial_data entry for each
\* distinct fiscal period and years_covered in ascending order.
C29_WrittenForAnySuccess ==
    (/\ batch.pc = "done"
     /\ batch.output # "none"
     /\ \E i \in 1..Len(batch.seen) : batch.seen[i].stored)
       => /\ batch.json # None
          /\ WrittenAsStated(batch.json[1])

\* What the code does: the file is written for two distinct periods or
\* more, and then it is as C29 says.
C29_WrittenForTwoPeriods ==
    batch.pc = "done" =>
        /\ (batch.json # None) <=>
              (batch.output = "writable" /\ Cardinality(StoredPeriods) > 1)
        /\ batch.json # None => WrittenAsStated(batch.json[1])

\* The file is written, the later period having been processed first.
C29_Written ==
    /\ batch.pc = "done"
    /\ batch.json # None
    /\ batch.all_raw_data[1].year # batch.json[1].years_covered[1]

(***************************************************************************)
(* Claims about the two entries of the cache                               *)
(***************************************************************************)
BothCached == data_cache.all_data # None /\ data_cache.raw_json_data # None

\* C30 (as stated): under every interleaving of loads, clear_cache calls
\* and changes of the source file, whenever the cache holds both 'all_data'
\* and 'raw_json_data', all_data is the transform of raw_json_data.
C30_AllDataIsTransformOfRaw ==
    BothCached =>
        data_cache.all_data[1] = transform_consolidated_data(data_cache.raw_json_data[1])

(***************************************************************************)
(* Claims about the fiscal-period token                                    *)
(***************************************************************************)
\* The persisted entry of a period, under the token the extractor gave it.
PersistedUnder(year) == [period |-> year, data |-> YearData(year, None, TRUE, TRUE)]

\* C28 (as stated): every fiscal-period token the extractor assigns to a
\* record has the two-year 'start-end' form, so the consolidator and the
\* CSV loader split the persisted key into a start year and an end year
\* without raising.
C28_TokenHasStartAndEnd ==
    extractor.pc # "idle" =>
        LET parts == SplitDash(extractor.year)
        IN  /\ Len(parts) = 2
            /\ PyInt(parts[1]) # None
            /\ PyInt(parts[2]) # None
            /\ transform_consolidated_data(<<PersistedUnder(extractor.year)>>) # Raised
            /\ csv_dataset([listable |-> TRUE,
                            files |-> <<PersistedUnder(extractor.year)>>]) # Raised

\* The tokens of the three other sources do have the form and are split.
C28_OtherSourcesHaveTheForm ==
    (extractor.pc # "idle" /\ extractor.doc.file # File_2021) =>
        /\ Len(SplitDash(extractor.year)) = 2
        /\ transform_consolidated_data(<<PersistedUnder(extractor.year)>>) # Raised

====
